---------------------------- MODULE Spec2Model ----------------------------
(***************************************************************************)
(* PokeDex Explorer: the battle damage calculator and the state around it.  *)
(*                                                                         *)
(* The repository holds two copies of the application: the single-file     *)
(* script assets/js/main.js and the ES-module version whose battle code    *)
(* lives in assets/js/controller/gamingController.js.  A page loads one of  *)
(* them; the variable impl records which one.                               *)
(*                                                                         *)
(* JavaScript numbers are IEEE-754 doubles.  The damage formula divides by  *)
(* 5, by the defense stat and by 50, so its intermediate values are not     *)
(* exact; the model computes them as the double arithmetic does (round to   *)
(* nearest, ties to even, 53 significant bits, overflow to Infinity,        *)
(* gradual underflow), on magnitudes held in 15-bit limbs.                  *)
(***************************************************************************)
EXTENDS Integers, Naturals, Sequences, FiniteSets, TLC

-----------------------------------------------------------------------------
(* Optional values: JavaScript null / undefined / a missing DOM element.    *)
None == <<>>
Some(x) == <<x>>
IsSome(o) == o # <<>>
TheValue(o) == o[1]

-----------------------------------------------------------------------------
(* Natural numbers of any size: a tuple of limbs in base 2^15, least        *)
(* significant limb first, without leading zero limbs; <<>> is 0.           *)
LimbBits == 3 * 5
LimbBase == 2 ^ LimbBits
Significand == 52 + 1
\* a finite double is mant * 2^exp with exp >= MinExponent and below 2^MaxTop
MinExponent == 0 - 1074
MaxTop == 2 ^ 10

Max(a, b) == IF a >= b THEN a ELSE b
Zeros(k) == [i \in 1..k |-> 0]
Limb(N, i) == IF i <= Len(N) THEN N[i] ELSE 0
RECURSIVE BigTrim(_)
BigTrim(N) ==
    IF N = <<>> THEN N
    ELSE IF N[Len(N)] = 0 THEN BigTrim(SubSeq(N, 1, Len(N) - 1))
    ELSE N
RECURSIVE BigFromNat(_)
BigFromNat(n) == IF n = 0 THEN <<>> ELSE <<n % LimbBase>> \o BigFromNat(n \div LimbBase)
\* the value of N, for N below 2^30
BigToNat(N) == Limb(N, 1) + LimbBase * Limb(N, 2)

(* The limb loops hand each intermediate value to the next step as an      *)
(* operator argument, so that it is computed once.                          *)
RECURSIVE MulLimbs(_, _, _, _)
MulStep(N, n, i, t) == <<t % LimbBase>> \o MulLimbs(N, n, i + 1, t \div LimbBase)
MulLimbs(N, n, i, carry) ==
    IF i > Len(N) THEN (IF carry = 0 THEN <<>> ELSE <<carry>>)
    ELSE MulStep(N, n, i, N[i] * n + carry)
\* N * n for 0 <= n < 2^15
BigMulSmall(N, n) == IF n = 0 THEN <<>> ELSE MulLimbs(N, n, 1, 0)

RECURSIVE DivLimbs(_, _, _, _, _)
DivStep(N, n, i, t, q) == DivLimbs(N, n, i - 1, t % n, <<t \div n>> \o q)
DivLimbs(N, n, i, rem, q) ==
    IF i = 0 THEN [q |-> BigTrim(q), r |-> BigFromNat(rem)]
    ELSE DivStep(N, n, i, rem * LimbBase + N[i], q)
\* quotient and remainder of N by n, 0 < n < 2^15
BigDivSmall(N, n) == DivLimbs(N, n, Len(N), 0, <<>>)

RECURSIVE AddLimbs(_, _, _, _)
AddStep(N, M, i, t) == <<t % LimbBase>> \o AddLimbs(N, M, i + 1, t \div LimbBase)
AddLimbs(N, M, i, carry) ==
    IF i > Len(N) /\ i > Len(M) THEN (IF carry = 0 THEN <<>> ELSE <<carry>>)
    ELSE AddStep(N, M, i, Limb(N, i) + Limb(M, i) + carry)
BigAdd(N, M) == AddLimbs(N, M, 1, 0)

RECURSIVE SubLimbs(_, _, _, _)
SubStep(N, M, i, t) ==
    IF t < 0 THEN <<t + LimbBase>> \o SubLimbs(N, M, i + 1, 1)
    ELSE <<t>> \o SubLimbs(N, M, i + 1, 0)
SubLimbs(N, M, i, borrow) ==
    IF i > Len(N) THEN <<>> ELSE SubStep(N, M, i, N[i] - Limb(M, i) - borrow)
\* N - M for N >= M
BigSub(N, M) == BigTrim(SubLimbs(N, M, 1, 0))

RECURSIVE CmpLimbs(_, _, _)
CmpLimbs(N, M, i) ==
    IF i = 0 THEN 0
    ELSE IF N[i] > M[i] THEN 1
    ELSE IF N[i] < M[i] THEN -1
    ELSE CmpLimbs(N, M, i - 1)
\* -1, 0, 1 as N < M, N = M, N > M
BigCmp(N, M) ==
    IF Len(N) > Len(M) THEN 1
    ELSE IF Len(N) < Len(M) THEN -1
    ELSE CmpLimbs(N, M, Len(N))

RECURSIVE MulBig(_, _, _)
MulBig(N, M, j) ==
    IF j > Len(M) THEN <<>>
    ELSE BigAdd(IF M[j] = 0 THEN <<>> ELSE Zeros(j - 1) \o BigMulSmall(N, M[j]),
                MulBig(N, M, j + 1))
\* N * M
BigMul(N, M) == IF N = <<>> THEN <<>> ELSE MulBig(N, M, 1)

RECURSIVE BitLen(_)
BitLen(n) == IF n = 0 THEN 0 ELSE 1 + BitLen(n \div 2)
\* number of significant bits of N
BigBitLength(N) == IF N = <<>> THEN 0 ELSE LimbBits * (Len(N) - 1) + BitLen(N[Len(N)])
\* N * 2^s
BigShiftLeft(N, s) ==
    IF N = <<>> THEN N
    ELSE Zeros(s \div LimbBits) \o BigMulSmall(N, 2 ^ (s % LimbBits))
\* N div 2^s, and whether a bit that is 1 was shifted out
ShiftedOut(d, lost) == [q |-> d.q, lost |-> lost \/ d.r # <<>>]
BigShiftRight(N, s) ==
    IF s \div LimbBits >= Len(N) THEN [q |-> <<>>, lost |-> N # <<>>]
    ELSE ShiftedOut(BigDivSmall(SubSeq(N, s \div LimbBits + 1, Len(N)), 2 ^ (s % LimbBits)),
                    \E i \in 1..(s \div LimbBits) : N[i] # 0)
\* bit i of N, counted from 0
BigBit(N, i) == (Limb(N, i \div LimbBits + 1) \div (2 ^ (i % LimbBits))) % 2

(* Quotient and remainder of N by any M > 0: the long division in base 2,  *)
(* from the top bit of N down.                                              *)
RECURSIVE DivBits(_, _, _, _, _)
DivBitStep(N, M, i, t, q) ==
    IF BigCmp(t, M) >= 0
    THEN DivBits(N, M, i - 1, BigSub(t, M), BigAdd(BigMulSmall(q, 2), <<1>>))
    ELSE DivBits(N, M, i - 1, t, BigMulSmall(q, 2))
DivBits(N, M, i, rem, q) ==
    IF i < 0 THEN [q |-> q, r |-> rem]
    ELSE DivBitStep(N, M, i, BigAdd(BigMulSmall(rem, 2), BigFromNat(BigBit(N, i))), q)
BigDivMod(N, M) ==
    IF Len(M) = 1 THEN BigDivSmall(N, M[1])
    ELSE DivBits(N, M, BigBitLength(N) - 1, <<>>, <<>>)

-----------------------------------------------------------------------------
(* JavaScript numbers.  kind is "num" (a finite double: sign, and the      *)
(* magnitude mant * 2^exp with mant of exactly 53 bits, or of fewer bits    *)
(* at the least exponent; zero has mant 0 and exp 0), "inf" or "nan".       *)
DNaN == [kind |-> "nan", neg |-> FALSE, mant |-> <<>>, exp |-> 0]
DInf(neg) == [kind |-> "inf", neg |-> neg, mant |-> <<>>, exp |-> 0]
DNum(neg, mant, exp) == [kind |-> "num", neg |-> neg, mant |-> mant, exp |-> exp]
DZero(neg) == DNum(neg, <<>>, 0)
DIsZero(x) == x.kind = "num" /\ x.mant = <<>>

(* Round to nearest, ties to even.  The exact magnitude is N * 2^exp, or   *)
(* lies strictly above it when sticky is set (a division left a            *)
(* remainder).  s bits are dropped: as many as N has above 53, and at       *)
(* least as many as bring the exponent to MinExponent (gradual underflow).  *)
(* half is N div 2^(s-1): its last bit is the first bit dropped.            *)
RoundedUp(q, up) == IF up THEN BigAdd(q, <<1>>) ELSE q
RoundHalf(half, q, sticky) ==
    RoundedUp(q, Limb(half.q, 1) % 2 = 1 /\ (half.lost \/ sticky \/ Limb(q, 1) % 2 = 1))
RoundDropping(N, sticky, half) == RoundHalf(half, BigDivSmall(half.q, 2).q, sticky)
\* the double of a rounded magnitude: a carry into bit 54 moves the exponent
Pack(neg, mant, exp, bits) ==
    IF mant = <<>> THEN DZero(neg)
    ELSE IF bits > Significand THEN
        (IF exp + bits > MaxTop THEN DInf(neg) ELSE DNum(neg, BigDivSmall(mant, 2).q, exp + 1))
    ELSE IF exp + bits > MaxTop THEN DInf(neg)
    ELSE DNum(neg, mant, exp)
Packed(neg, mant, exp) == Pack(neg, mant, exp, BigBitLength(mant))
RoundBy(neg, N, exp, sticky, s) ==
    IF s > 0 THEN Packed(neg, RoundDropping(N, sticky, BigShiftRight(N, s - 1)), exp + s)
    ELSE Packed(neg, BigShiftLeft(N, 0 - s), exp + s)
RoundToDouble(neg, N, exp, sticky) ==
    IF N = <<>> THEN DZero(neg)
    ELSE RoundBy(neg, N, exp, sticky,
                 Max(BigBitLength(N) - Significand, MinExponent - exp))

\* the double of an integer literal or an integer JSON value
DoubleFromInt(n) == RoundToDouble(n < 0, BigFromNat(IF n < 0 THEN 0 - n ELSE n), 0, FALSE)

\* x * y
DMul(x, y) ==
    IF x.kind = "nan" \/ y.kind = "nan" THEN DNaN
    ELSE IF x.kind = "inf" \/ y.kind = "inf"
         THEN IF DIsZero(x) \/ DIsZero(y) THEN DNaN ELSE DInf(x.neg # y.neg)
    ELSE RoundToDouble(x.neg # y.neg, BigMul(x.mant, y.mant), x.exp + y.exp, FALSE)

RECURSIVE TrailingZeros(_)
TrailingZeros(n) == IF n % 2 = 1 THEN 0 ELSE 1 + TrailingZeros(n \div 2)
RECURSIVE ZeroLimbs(_, _)
ZeroLimbs(N, i) == IF N[i] # 0 THEN i - 1 ELSE ZeroLimbs(N, i + 1)
(* The quotient of two magnitudes, rounded.  Powers of two are taken out    *)
(* of the divisor (z zero limbs, then t zero bits, leaving m), and the      *)
(* dividend is shifted left by sh so that the quotient has 56 bits or more. *)
Quotient(neg, d, exp) == RoundToDouble(neg, d.q, exp, d.r # <<>>)
DivShifted(neg, N, m, exp, sh) == Quotient(neg, BigDivMod(BigShiftLeft(N, sh), m), exp - sh)
DivOdd(neg, N, m, exp) ==
    DivShifted(neg, N, m, exp, Max(0, 56 + BigBitLength(m) - BigBitLength(N)))
DivBy(neg, N, M, exp, t) == DivOdd(neg, N, BigDivSmall(M, 2 ^ t).q, exp - t)
DivLimbed(neg, N, M, exp) == DivBy(neg, N, M, exp, TrailingZeros(M[1]))
DivMagnitudes(neg, N, M, exp, z) ==
    DivLimbed(neg, N, SubSeq(M, z + 1, Len(M)), exp - LimbBits * z)
(* x / y.  A zero divisor gives NaN for 0/0 and an infinity otherwise.      *)
DDiv(x, y) ==
    IF x.kind = "nan" \/ y.kind = "nan" THEN DNaN
    ELSE IF x.kind = "inf" THEN (IF y.kind = "inf" THEN DNaN ELSE DInf(x.neg # y.neg))
    ELSE IF y.kind = "inf" THEN DZero(x.neg # y.neg)
    ELSE IF DIsZero(y)
         THEN IF DIsZero(x) THEN DNaN ELSE DInf(x.neg # y.neg)
    ELSE IF DIsZero(x) THEN DZero(x.neg # y.neg)
    ELSE DivMagnitudes(x.neg # y.neg, x.mant, y.mant, x.exp - y.exp, ZeroLimbs(y.mant, 1))

(* The sum of two finite doubles that are not zero, a the one of the       *)
(* greater exponent: b's magnitude is added to or taken from a's, shifted   *)
(* to b's exponent.  More than 64 binary places below a, b cannot change    *)
(* the rounded result.                                                      *)
AddAligned(a, b, N) ==
    IF a.neg = b.neg THEN RoundToDouble(a.neg, BigAdd(N, b.mant), b.exp, FALSE)
    ELSE IF BigCmp(N, b.mant) > 0 THEN RoundToDouble(a.neg, BigSub(N, b.mant), b.exp, FALSE)
    ELSE IF BigCmp(N, b.mant) < 0 THEN RoundToDouble(b.neg, BigSub(b.mant, N), b.exp, FALSE)
    ELSE DZero(FALSE)
AddOrdered(a, b) ==
    IF a.exp - b.exp > 64 THEN a ELSE AddAligned(a, b, BigShiftLeft(a.mant, a.exp - b.exp))
\* x + y
DAdd(x, y) ==
    IF x.kind = "nan" \/ y.kind = "nan" THEN DNaN
    ELSE IF x.kind = "inf"
         THEN IF y.kind = "inf" /\ x.neg # y.neg THEN DNaN ELSE x
    ELSE IF y.kind = "inf" THEN y
    ELSE IF DIsZero(x) THEN (IF DIsZero(y) THEN DZero(x.neg /\ y.neg) ELSE y)
    ELSE IF DIsZero(y) THEN x
    ELSE IF x.exp >= y.exp THEN AddOrdered(x, y)
    ELSE AddOrdered(y, x)

-----------------------------------------------------------------------------
(* The effectiveness multiplier: a product of factors 2, 0.5 and 0, held   *)
(* exactly as a fraction <<numerator, denominator>> in lowest terms (the   *)
(* double product of such factors is exact).                                *)
RECURSIVE GCD(_, _)
GCD(a, b) == IF b = 0 THEN a ELSE GCD(b, a % b)
Rat(n, d) == IF n = 0 THEN <<0, 1>> ELSE <<n \div GCD(n, d), d \div GCD(n, d)>>
RatMul(a, b) == Rat(a[1] * b[1], a[2] * b[2])
RatLess(a, b) == a[1] * b[2] < b[1] * a[2]
RatOne == Rat(1, 1)
RatTwo == Rat(2, 1)
RatHalf == Rat(1, 2)
RatZero == Rat(0, 1)

\* x * effectiveness, the multiplier as the double it is
DMulRat(x, e) == DMul(x, DDiv(DoubleFromInt(e[1]), DoubleFromInt(e[2])))

(* The floor of a finite value from its sign, its integer part and whether *)
(* it has a fraction.  A floor below 2^30 in magnitude is an integer of     *)
(* the model; a greater one is kept as the double it is.                    *)
FloorAs(neg, I) ==
    IF BigBitLength(I) <= 2 * LimbBits
    THEN [kind |-> "int", n |-> IF neg THEN 0 - BigToNat(I) ELSE BigToNat(I), value |-> None]
    ELSE [kind |-> "large", n |-> 0, value |-> Some(RoundToDouble(neg, I, 0, FALSE))]
FloorOf(neg, sh) == FloorAs(neg, IF neg /\ sh.lost THEN BigAdd(sh.q, <<1>>) ELSE sh.q)

(* Math.floor, and the number as the template literal prints it: an        *)
(* integer, "Infinity", "-Infinity" or "NaN".                               *)
MathFloor(x) ==
    IF x.kind = "nan" THEN [kind |-> "NaN", n |-> 0, value |-> None]
    ELSE IF x.kind = "inf"
         THEN [kind |-> IF x.neg THEN "-Infinity" ELSE "Infinity", n |-> 0, value |-> None]
    ELSE IF x.exp >= 0 /\ x.mant # <<>>
         THEN [kind |-> "large", n |-> 0, value |-> Some(x)]
    ELSE FloorOf(x.neg, BigShiftRight(x.mant, 0 - x.exp))

-----------------------------------------------------------------------------
(* Strings that are taken apart are tuples of UTF-16 code units, the way   *)
(* the engine holds them.  Str gives the code units of a text written as   *)
(* the tuple of its characters, for the printable characters of ASCII: the  *)
(* space (32) to the underscore (95), and the a (97) to the tilde (126).    *)
Printable ==
 <<
    " ", "!", "\"", "#", "$", "%", "&", "'", "(", ")", "*", "+", ",", "-", ".", "/",
    "0", "1", "2", "3", "4", "5", "6", "7", "8", "9", ":", ";", "<", "=", ">", "?",
    "@", "A", "B", "C", "D", "E", "F", "G", "H", "I", "J", "K", "L", "M", "N", "O",
    "P", "Q", "R", "S", "T", "U", "V", "W", "X", "Y", "Z", "[", "\\", "]", "^", "_"
 >>
PrintableFromA ==
 <<
    "a", "b", "c", "d", "e", "f", "g", "h", "i", "j", "k", "l", "m", "n", "o", "p",
    "q", "r", "s", "t", "u", "v", "w", "x", "y", "z", "{", "|", "}", "~"
 >>
CodeUnit(ch) ==
    IF \E i \in 1..Len(Printable) : Printable[i] = ch
    THEN 31 + CHOOSE i \in 1..Len(Printable) : Printable[i] = ch
    ELSE 96 + CHOOSE i \in 1..Len(PrintableFromA) : PrintableFromA[i] = ch
Str(chars) == [i \in 1..Len(chars) |-> CodeUnit(chars[i])]

(* What trim() and parseInt strip: WhiteSpace (TAB, VT, FF, U+FEFF and the *)
(* space separators) and LineTerminator (LF, CR, U+2028, U+2029).           *)
WhiteSpace ==
    {9, 10, 11, 12, 13, 32, 160, 5760, 8232, 8233, 8239, 8287, 12288, 65279}
        \cup (8192..8202)

(* parseInt on the text of a field: leading white space is skipped, then   *)
(* an optional sign; after 0x or 0X the longest run of hexadecimal digits   *)
(* is read, otherwise the longest run of decimal digits; NaN when the run   *)
(* is empty.                                                                *)
\* the value of a digit or letter in the radixes up to 36; 36 for any other
DigitValue(c) ==
    IF c \in 48..57 THEN c - 48
    ELSE IF c \in 65..90 THEN c - 55
    ELSE IF c \in 97..122 THEN c - 87
    ELSE 36
\* the least index from i on that satisfies Stop, or Len(s) + 1
FirstFrom(s, i, Stop(_)) ==
    CHOOSE j \in i..(Len(s) + 1) :
        /\ j = Len(s) + 1 \/ Stop(s[j])
        /\ \A k \in i..(j - 1) : ~Stop(s[k])
RECURSIVE BigPow(_, _)
BigPow(R, k) ==
    IF k = 0 THEN <<1>>
    ELSE IF k % 2 = 1 THEN BigMulSmall(BigPow(R, k - 1), R)
    ELSE BigMul(BigPow(R, k \div 2), BigPow(R, k \div 2))
\* the number that the digits s[i..j] write in radix R, by halves
RECURSIVE DigitsValue(_, _, _, _)
DigitsValue(s, i, j, R) ==
    IF i > j THEN <<>>
    ELSE IF i = j THEN BigFromNat(DigitValue(s[i]))
    ELSE BigAdd(BigMul(DigitsValue(s, i, (i + j) \div 2, R), BigPow(R, j - (i + j) \div 2)),
                DigitsValue(s, (i + j) \div 2 + 1, j, R))
NotDigit(c) == DigitValue(c) >= 10
NotHexDigit(c) == DigitValue(c) >= 16
NotWhiteSpace(c) == c \notin WhiteSpace
DigitRun(s, i, end, R) == [count |-> end - i, n |-> DigitsValue(s, i, end - 1, R)]
ParsedRun(run, neg) ==
    IF run.count = 0 THEN DNaN ELSE RoundToDouble(neg, run.n, 0, FALSE)
\* past the sign: the prefix 0x or 0X (120, 88 after 48) makes the radix 16
ParseUnsigned(s, i, neg) ==
    IF i < Len(s) /\ s[i] = 48 /\ s[i + 1] \in {120, 88}
    THEN ParsedRun(DigitRun(s, i + 2, FirstFrom(s, i + 2, NotHexDigit), 16), neg)
    ELSE ParsedRun(DigitRun(s, i, FirstFrom(s, i, NotDigit), 10), neg)
\* the sign: "-" (45) or "+" (43)
ParseFrom(s, i) ==
    IF i <= Len(s) /\ s[i] \in {45, 43} THEN ParseUnsigned(s, i + 1, s[i] = 45)
    ELSE ParseUnsigned(s, i, FALSE)
parseInt(s) == ParseFrom(s, FirstFrom(s, 1, NotWhiteSpace))
\* the decimal text of a small natural number (String(50), String(80))
RECURSIVE ToText(_)
ToText(n) ==
    IF n < 10 THEN <<48 + n>>
    ELSE Append(ToText(n \div 10), 48 + (n % 10))
(* parseInt(element?.value || dflt): a missing element and an empty value  *)
(* both give the default.                                                   *)
ParseField(field, dflt) ==
    IF IsSome(field) /\ TheValue(field) # <<>> THEN parseInt(TheValue(field))
    ELSE parseInt(ToText(dflt))

-----------------------------------------------------------------------------
(* The type tables.  Arrays that are only searched with includes() are     *)
(* sets.                                                                    *)

(* Faulty variant of the table: ghost is listed both as a weakness and as   *)
(* an immunity of normal.                                                   *)
typeEffectivenessOverlapping ==
    [ normal |->
        [weakTo |-> {"fighting", "ghost"},
         resistantTo |-> {},
         immuneTo |-> {"ghost"}],
      fire |->
        [weakTo |-> {"water", "ground", "rock"},
         resistantTo |-> {"fire", "grass", "ice", "bug", "steel", "fairy"},
         immuneTo |-> {}],
      water |->
        [weakTo |-> {"electric", "grass"},
         resistantTo |-> {"fire", "water", "ice", "steel"},
         immuneTo |-> {}],
      electric |->
        [weakTo |-> {"ground"},
         resistantTo |-> {"electric", "flying", "steel"},
         immuneTo |-> {}],
      grass |->
        [weakTo |-> {"fire", "ice", "poison", "flying", "bug"},
         resistantTo |-> {"water", "electric", "grass", "ground"},
         immuneTo |-> {}],
      ice |->
        [weakTo |-> {"fire", "fighting", "rock", "steel"},
         resistantTo |-> {"ice"},
         immuneTo |-> {}],
      fighting |->
        [weakTo |-> {"flying", "psychic", "fairy"},
         resistantTo |-> {"bug", "rock", "dark"},
         immuneTo |-> {}],
      poison |->
        [weakTo |-> {"ground", "psychic"},
         resistantTo |-> {"grass", "fighting", "poison", "bug", "fairy"},
         immuneTo |-> {}],
      ground |->
        [weakTo |-> {"water", "grass", "ice"},
         resistantTo |-> {"poison", "rock"},
         immuneTo |-> {"electric"}],
      flying |->
        [weakTo |-> {"electric", "ice", "rock"},
         resistantTo |-> {"grass", "fighting", "bug"},
         immuneTo |-> {"ground"}],
      psychic |->
        [weakTo |-> {"bug", "ghost", "dark"},
         resistantTo |-> {"fighting", "psychic"},
         immuneTo |-> {}],
      bug |->
        [weakTo |-> {"fire", "flying", "rock"},
         resistantTo |-> {"grass", "fighting", "ground"},
         immuneTo |-> {}],
      rock |->
        [weakTo |-> {"water", "grass", "fighting", "ground", "steel"},
         resistantTo |-> {"normal", "fire", "poison", "flying"},
         immuneTo |-> {}],
      ghost |->
        [weakTo |-> {"ghost", "dark"},
         resistantTo |-> {"poison", "bug"},
         immuneTo |-> {"normal", "fighting"}],
      dragon |->
        [weakTo |-> {"ice", "dragon", "fairy"},
         resistantTo |-> {"fire", "water", "electric", "grass"},
         immuneTo |-> {}],
      dark |->
        [weakTo |-> {"fighting", "bug", "fairy"},
         resistantTo |-> {"ghost", "dark"},
         immuneTo |-> {"psychic"}],
      steel |->
        [weakTo |-> {"fire", "fighting", "ground"},
         resistantTo |-> {"normal", "grass", "ice", "flying", "psychic", "bug", "rock", "dragon", "steel", "fairy"},
         immuneTo |-> {"poison"}],
      fairy |->
        [weakTo |-> {"poison", "steel"},
         resistantTo |-> {"fighting", "bug", "dark"},
         immuneTo |-> {"dragon"}] ]

\* main.js and Model/pokemonData.js (the same literal): the 18-type table
typeEffectiveness ==
    [ normal |->
        [weakTo |-> {"fighting"},
         resistantTo |-> {},
         immuneTo |-> {"ghost"}],
      fire |->
        [weakTo |-> {"water", "ground", "rock"},
         resistantTo |-> {"fire", "grass", "ice", "bug", "steel", "fairy"},
         immuneTo |-> {}],
      water |->
        [weakTo |-> {"electric", "grass"},
         resistantTo |-> {"fire", "water", "ice", "steel"},
         immuneTo |-> {}],
      electric |->
        [weakTo |-> {"ground"},
         resistantTo |-> {"electric", "flying", "steel"},
         immuneTo |-> {}],
      grass |->
        [weakTo |-> {"fire", "ice", "poison", "flying", "bug"},
         resistantTo |-> {"water", "electric", "grass", "ground"},
         immuneTo |-> {}],
      ice |->
        [weakTo |-> {"fire", "fighting", "rock", "steel"},
         resistantTo |-> {"ice"},
         immuneTo |-> {}],
      fighting |->
        [weakTo |-> {"flying", "psychic", "fairy"},
         resistantTo |-> {"bug", "rock", "dark"},
         immuneTo |-> {}],
      poison |->
        [weakTo |-> {"ground", "psychic"},
         resistantTo |-> {"grass", "fighting", "poison", "bug", "fairy"},
         immuneTo |-> {}],
      ground |->
        [weakTo |-> {"water", "grass", "ice"},
         resistantTo |-> {"poison", "rock"},
         immuneTo |-> {"electric"}],
      flying |->
        [weakTo |-> {"electric", "ice", "rock"},
         resistantTo |-> {"grass", "fighting", "bug"},
         immuneTo |-> {"ground"}],
      psychic |->
        [weakTo |-> {"bug", "ghost", "dark"},
         resistantTo |-> {"fighting", "psychic"},
         immuneTo |-> {}],
      bug |->
        [weakTo |-> {"fire", "flying", "rock"},
         resistantTo |-> {"grass", "fighting", "ground"},
         immuneTo |-> {}],
      rock |->
        [weakTo |-> {"water", "grass", "fighting", "ground", "steel"},
         resistantTo |-> {"normal", "fire", "poison", "flying"},
         immuneTo |-> {}],
      ghost |->
        [weakTo |-> {"ghost", "dark"},
         resistantTo |-> {"poison", "bug"},
         immuneTo |-> {"normal", "fighting"}],
      dragon |->
        [weakTo |-> {"ice", "dragon", "fairy"},
         resistantTo |-> {"fire", "water", "electric", "grass"},
         immuneTo |-> {}],
      dark |->
        [weakTo |-> {"fighting", "bug", "fairy"},
         resistantTo |-> {"ghost", "dark"},
         immuneTo |-> {"psychic"}],
      steel |->
        [weakTo |-> {"fire", "fighting", "ground"},
         resistantTo |-> {"normal", "grass", "ice", "flying", "psychic", "bug", "rock", "dragon", "steel", "fairy"},
         immuneTo |-> {"poison"}],
      fairy |->
        [weakTo |-> {"poison", "steel"},
         resistantTo |-> {"fighting", "bug", "dark"},
         immuneTo |-> {"dragon"}] ]

\* gamingController.js: the chart local to its calculateBattleDamage
typeChart ==
    [ fire |->
        [weak |-> {"water", "ground", "rock"},
         resist |-> {"fire", "grass", "ice", "bug", "steel", "fairy"}],
      water |->
        [weak |-> {"electric", "grass"},
         resist |-> {"fire", "water", "ice", "steel"}],
      grass |->
        [weak |-> {"fire", "ice", "poison", "flying", "bug"},
         resist |-> {"water", "electric", "grass", "ground"}],
      electric |->
        [weak |-> {"ground"},
         resist |-> {"electric", "flying", "steel"}] ]

\* the type names of the table, the options of the move-type select
ElementTypes == DOMAIN typeEffectiveness

(* Both tables are object literals and inherit the properties of            *)
(* Object.prototype: table[name] for one of these names is no entry of the  *)
(* table and is truthy all the same (a function, or the prototype itself).  *)
ObjectPrototypeNames ==
    {"constructor", "hasOwnProperty", "isPrototypeOf", "propertyIsEnumerable",
     "toLocaleString", "toString", "valueOf", "__proto__", "__defineGetter__",
     "__defineSetter__", "__lookupGetter__", "__lookupSetter__"}
(* What the callback leaves for such a name: the inherited value has no     *)
(* weakTo (weak), and undefined.includes(...) throws a TypeError, which     *)
(* ends the forEach and the calculation.                                    *)
TypeError == <<"TypeError">>

(* Faulty variants of the callback of main.js, each a slip the code could  *)
(* have made; the properties below are checked to tell them from it.        *)
\* "effectiveness += 1" for a weakness: the factors add instead of multiplying
applyTypeMainAdditive(effectiveness, defType, moveType) ==
    IF defType \in DOMAIN typeEffectiveness
    THEN LET chart == typeEffectiveness[defType]
             e1 == IF moveType \in chart.weakTo
                   THEN Rat(effectiveness[1] + effectiveness[2], effectiveness[2])
                   ELSE IF defType \in ObjectPrototypeNames THEN TypeError
    ELSE effectiveness
             e2 == IF moveType \in chart.resistantTo
                   THEN RatMul(e1, RatHalf) ELSE e1
         IN  IF moveType \in chart.immuneTo THEN RatMul(e2, RatZero) ELSE e2
    ELSE effectiveness
\* "effectiveness = 2" and so on: each type overwrites what the previous one gave
applyTypeMainAssigning(effectiveness, defType, moveType) ==
    IF defType \in DOMAIN typeEffectiveness
    THEN LET chart == typeEffectiveness[defType]
             e1 == IF moveType \in chart.weakTo THEN RatTwo ELSE effectiveness
             e2 == IF moveType \in chart.resistantTo THEN RatHalf ELSE e1
         IN  IF moveType \in chart.immuneTo THEN RatZero ELSE e2
    ELSE IF defType \in ObjectPrototypeNames THEN TypeError
    ELSE effectiveness
(* The body of the forEach callback of main.js: three independent ifs on   *)
(* the entry of the defending type, skipped when typeEffectiveness[defType] *)
(* is undefined.                                                            *)
applyTypeMain(effectiveness, defType, moveType) ==
    IF defType \in DOMAIN typeEffectiveness
    THEN LET chart == typeEffectiveness[defType]
             e1 == IF moveType \in chart.weakTo
                   THEN RatMul(effectiveness, RatTwo) ELSE effectiveness
             e2 == IF moveType \in chart.resistantTo
                   THEN RatMul(e1, RatHalf) ELSE e1
         IN  IF moveType \in chart.immuneTo THEN RatMul(e2, RatZero) ELSE e2
    ELSE IF defType \in ObjectPrototypeNames THEN TypeError
    ELSE effectiveness

\* The body of the forEach callback of gamingController.js: two ifs.
applyTypeGaming(effectiveness, defType, moveType) ==
    IF defType \in DOMAIN typeChart
    THEN LET chart == typeChart[defType]
             e1 == IF moveType \in chart.weak
                   THEN RatMul(effectiveness, RatTwo) ELSE effectiveness
         IN  IF moveType \in chart.resist THEN RatMul(e1, RatHalf) ELSE e1
    ELSE IF defType \in ObjectPrototypeNames THEN TypeError
    ELSE effectiveness

\* defenderTypes.forEach(...), from index i on; a callback that throws ends it
RECURSIVE forEachDefType(_, _, _, _, _)
forEachDefType(im, defenderTypes, i, effectiveness, moveType) ==
    IF i > Len(defenderTypes) THEN effectiveness
    ELSE LET after == IF im = "main"
                      THEN applyTypeMain(effectiveness, defenderTypes[i], moveType)
                      ELSE applyTypeGaming(effectiveness, defenderTypes[i], moveType)
         IN  IF after = TypeError THEN TypeError
             ELSE forEachDefType(im, defenderTypes, i + 1, after, moveType)

\* let effectiveness = 1; defenderTypes.forEach(...)
typeEffectivenessOf(im, moveType, defenderTypes) ==
    forEachDefType(im, defenderTypes, 1, RatOne, moveType)

(* Math.floor(((((2 * attackerLevel / 5 + 2) * movePower * attackStat      *)
(*              / defenseStat) / 50) + 2) * effectiveness),                 *)
(* every operation rounded as a double, in the order JavaScript evaluates. *)
rawDamage(attackerLevel, movePower, attackStat, defenseStat) ==
    DAdd(DDiv(DDiv(DMul(DMul(DAdd(DDiv(DMul(DoubleFromInt(2), attackerLevel),
                                       DoubleFromInt(5)),
                                  DoubleFromInt(2)),
                             movePower),
                        attackStat),
                   defenseStat),
              DoubleFromInt(50)),
         DoubleFromInt(2))
(* Faulty variant: Math.floor(raw) * effectiveness, the truncation before  *)
(* the multiplier; a half or quarter of an odd floor prints with a          *)
(* fraction.                                                                *)
scaleFloored(f, effectiveness) ==
    IF f.kind # "int" THEN f
    ELSE [kind |-> IF (f.n * effectiveness[1]) % effectiveness[2] = 0
                   THEN "int" ELSE "fraction",
          n |-> (f.n * effectiveness[1]) \div effectiveness[2],
          value |-> None]
baseDamageTruncatedFirst(attackerLevel, movePower, attackStat, defenseStat, effectiveness) ==
    scaleFloored(MathFloor(rawDamage(attackerLevel, movePower, attackStat, defenseStat)),
                 effectiveness)
baseDamageOf(attackerLevel, movePower, attackStat, defenseStat, effectiveness) ==
    MathFloor(DMulRat(rawDamage(attackerLevel, movePower, attackStat, defenseStat),
                      effectiveness))

\* the if/else chain that picks the effectiveness text
effectivenessTextOf(im, effectiveness) ==
    IF im = "main" /\ effectiveness = RatZero THEN "It has no effect!"
    ELSE IF RatLess(effectiveness, RatOne) THEN "It's not very effective..."
    ELSE IF RatLess(RatOne, effectiveness) THEN "It's super effective!"
    ELSE "It's normally effective."

-----------------------------------------------------------------------------
(* State.                                                                   *)
VARIABLES
    impl,                \* "main" (main.js) or "gaming" (the modules: gamingController.js, Model/)
    currentBattleSetup,  \* [attacker, defender]: None or Some(API response)
    attackerLevel,       \* value of #attacker-level: None while the element is absent
    attackerMovePower,   \* value of #attacker-move-power
    attackerMoveType,    \* value of #attacker-move-type
    battleResult,        \* content of #battle-result: None (empty) or Some(result)
    pendingBattle,       \* addToBattle calls awaiting their fetch: [name, role]
    pokemonCache,        \* the Map: clean name -> parsed response
    requests,            \* fetch() calls awaiting their response: [req, name, cached, preload]
    nextRequest,         \* serial of the next fetch() call
    received,            \* every ok response that parsed since the page was loaded
    favoritesPokemon,    \* the favorites list
    localStorage,        \* item 'pokemonFavorites': None (absent) or Some(text)
    currentQuizGame,     \* [currentPokemon, score, streak, options, revealed]
    quizContainer,       \* content of #quiz-container: "empty", "question", "error"
    currentComparisonSlots, \* [slot1, slot2]: None or Some(API response)
    pendingComparison,   \* addToComparison calls awaiting their fetch: [name, slot]
    firstCalculation,    \* a damage calculation made earlier, to compare with:
                         \* None or Some([inputs, result, repeated])
    searches,            \* searches awaiting their fetch: [search, name]
    nextSearch,          \* serial of the next search
    loading,             \* style.display of #loading: "block" or "none"
    output,              \* content of #output: None, or Some([kind, search, name]) with
                         \* kind "pokemon" (the card) or "error" (the message)
    isShinyMode,         \* let isShinyMode
    shinyImages,         \* the images on display that carry the inline shiny style:
                         \* a set of "card", "quiz", "evolution"
    evolutionWalks,      \* showEvolutionChain calls at an await: of the Pokemon's
                         \* fetch, the species', the chain's, or a stage's
    evolutionDisplay,    \* content of #evolution-display: None, the stages or the error
    movesCalls,          \* showPokemonMoves calls at an await: [phase, name, hit]
    movesetContainer,    \* content of #moveset-container: None, the moves or the error
    activeButtons,       \* the features whose .gaming-btn has the class 'active'
    visibleSections,     \* the features whose section has style.display 'block'
    quizCalls,           \* the generateNewQuizQuestion calls at an await: None or
                         \* Some([awaiting, options, id, hit])
    online,              \* whether requests to the API are answered
    questionScored       \* the question on display has added to the score

battleVars == <<impl, currentBattleSetup, attackerLevel, attackerMovePower,
                attackerMoveType, battleResult, pendingBattle>>
cacheVars == <<pokemonCache, requests, nextRequest, received>>
favoritesVars == <<favoritesPokemon, localStorage>>
quizVars == <<currentQuizGame, quizContainer>>
comparisonVars == <<currentComparisonSlots, pendingComparison>>
searchVars == <<searches, nextSearch, loading, output>>
shinyVars == <<isShinyMode, shinyImages>>
evolutionVars == <<evolutionWalks, evolutionDisplay>>
movesVars == <<movesCalls, movesetContainer>>
sectionVars == <<activeButtons, visibleSections>>
quizCallVars == <<quizCalls, online>>
\* the search, shiny mode, evolution viewer, moves, feature buttons and quiz fetches
pageVars == <<searchVars, shinyVars, evolutionVars, movesVars, sectionVars, quizCallVars,
              questionScored>>
vars == <<battleVars, cacheVars, favoritesVars, quizVars, comparisonVars,
          firstCalculation, pageVars>>
\* what the battle calculator's handlers never touch
featureVars == <<requests, nextRequest, received, favoritesVars, quizVars,
                 comparisonVars, pageVars>>

Impls == {"main", "gaming"}
Roles == {"attacker", "defender"}

(* What the API answers for a name, reduced to what the calculator reads:  *)
(* stats[attack].base_stat, stats[defense].base_stat, types[].type.name.   *)
Pokemon(name, attack, defense, types) ==
    [name |-> name, attack |-> attack, defense |-> defense, types |-> types]

(* The responses of the small model: two released Pokemon and one response *)
(* with a defense base_stat of 0, which no check in the code rejects.       *)
Pokedex ==
    [ manaphy |-> Pokemon("manaphy", 100, 100, <<"water">>),
      sandshrew |-> Pokemon("sandshrew", 75, 85, <<"ground">>),
      glitch |-> Pokemon("glitch", 136, 0, <<"ground">>) ]

\* the names as typed into the slot's input
NameTyped ==
    [ manaphy |-> Str(<<"M", "a", "n", "a", "p", "h", "y">>), sandshrew |-> Str(<<"s", "a", "n", "d", "s", "h", "r", "e", "w", " ">>), glitch |-> Str(<<"g", "l", "i", "t", "c", "h">>) ]

\* in-flight addToBattle calls the model follows at a time
MaxPending == 1

\* texts typed into the number fields (the default texts are "50" and "80")
LevelTexts == {Str(<<"1">>), Str(<<"1", "0", "1">>)}
PowerTexts == {Str(<<"0">>)}
MoveTypesTried == {"electric", "water"}
DefaultLevel == 50
DefaultPower == 80
DefaultMoveType == "normal"

-----------------------------------------------------------------------------
(* Faulty variant: a streak in the quiz doubles the multiplier.             *)
battleResultForStreak(im, attackerLevel_, movePower, effectiveness, attackStat, defenseStat) ==
    LET boosted == IF currentQuizGame.streak > 0
                   THEN RatMul(effectiveness, RatTwo) ELSE effectiveness
    IN  [damage |-> baseDamageOf(attackerLevel_, movePower, DoubleFromInt(attackStat),
                                 DoubleFromInt(defenseStat), boosted),
         effectiveness |-> boosted,
         text |-> effectivenessTextOf(im, boosted)]

(* calculateBattleDamage past its early return: the content it writes to   *)
(* #battle-result for the given setup and field values.                     *)
battleResultFor(im, attackerLevel_, movePower, effectiveness, attackStat, defenseStat) ==
    [damage |-> baseDamageOf(attackerLevel_, movePower, DoubleFromInt(attackStat),
                             DoubleFromInt(defenseStat), effectiveness),
     effectiveness |-> effectiveness,
     text |-> effectivenessTextOf(im, effectiveness)]
\* document.getElementById('attacker-move-type')?.value || 'normal'
moveTypeOf(typeField) ==
    IF IsSome(typeField) /\ TheValue(typeField) # "" THEN TheValue(typeField)
    ELSE DefaultMoveType
\* the multiplier the forEach leaves for the setup, or TypeError
effectivenessOf(im, setup, typeField) ==
    typeEffectivenessOf(im, moveTypeOf(typeField), TheValue(setup.defender).types)
battleResultOf(im, setup, levelField, powerField, typeField) ==
    battleResultFor(im,
        ParseField(levelField, DefaultLevel),
        ParseField(powerField, DefaultPower),
        effectivenessOf(im, setup, typeField),
        TheValue(setup.attacker).attack,
        TheValue(setup.defender).defense)

(* calculateBattleDamage: if (!attacker || !defender) return; else write   *)
(* the result.  When the forEach throws, the function is left before it    *)
(* writes and #battle-result keeps what it shows.                           *)
calculateBattleDamage(im, setup, levelField, powerField, typeField, shown) ==
    IF IsSome(setup.attacker) /\ IsSome(setup.defender)
    THEN IF effectivenessOf(im, setup, typeField) = TypeError THEN shown
         ELSE Some(battleResultOf(im, setup, levelField, powerField, typeField))
    ELSE shown

(* updateBattleDisplay: both slots are rendered again, which creates the   *)
(* attacker's fields with their default values (or removes them when the   *)
(* slot is empty), and the damage is calculated when both slots are filled. *)
updateBattleDisplay(setup, shown) ==
    LET present == IsSome(setup.attacker)
        level == IF present THEN Some(ToText(DefaultLevel)) ELSE None
        power == IF present THEN Some(ToText(DefaultPower)) ELSE None
        type == IF present THEN Some(DefaultMoveType) ELSE None
    IN  /\ currentBattleSetup' = setup
        /\ attackerLevel' = level
        /\ attackerMovePower' = power
        /\ attackerMoveType' = type
        /\ battleResult' = calculateBattleDamage(impl, setup, level, power, type, shown)

(* Names.  toLowerCase works on the code points of the string: a          *)
(* surrogate pair is one code point, and every code point is replaced by    *)
(* its lower case mapping of the Unicode Character Database, version 17.   *)
\* the code points with a lower case mapping that is another single code
\* point, past ASCII: <<first, last, step, distance to the lower case>>
LowerCaseRuns ==
 <<
    <<192, 214, 1, 32>>, <<216, 222, 1, 32>>, <<256, 302, 2, 1>>, <<306, 310, 2, 1>>, <<313, 327, 2, 1>>,
    <<330, 374, 2, 1>>, <<376, 376, 1, -121>>, <<377, 381, 2, 1>>, <<385, 385, 1, 210>>, <<386, 388, 2, 1>>,
    <<390, 390, 1, 206>>, <<391, 391, 1, 1>>, <<393, 394, 1, 205>>, <<395, 395, 1, 1>>, <<398, 398, 1, 79>>,
    <<399, 399, 1, 202>>, <<400, 400, 1, 203>>, <<401, 401, 1, 1>>, <<403, 403, 1, 205>>, <<404, 404, 1, 207>>,
    <<406, 406, 1, 211>>, <<407, 407, 1, 209>>, <<408, 408, 1, 1>>, <<412, 412, 1, 211>>, <<413, 413, 1, 213>>,
    <<415, 415, 1, 214>>, <<416, 420, 2, 1>>, <<422, 422, 1, 218>>, <<423, 423, 1, 1>>, <<425, 425, 1, 218>>,
    <<428, 428, 1, 1>>, <<430, 430, 1, 218>>, <<431, 431, 1, 1>>, <<433, 434, 1, 217>>, <<435, 437, 2, 1>>,
    <<439, 439, 1, 219>>, <<440, 440, 1, 1>>, <<444, 444, 1, 1>>, <<452, 452, 1, 2>>, <<453, 453, 1, 1>>,
    <<455, 455, 1, 2>>, <<456, 456, 1, 1>>, <<458, 458, 1, 2>>, <<459, 475, 2, 1>>, <<478, 494, 2, 1>>,
    <<497, 497, 1, 2>>, <<498, 500, 2, 1>>, <<502, 502, 1, -97>>, <<503, 503, 1, -56>>, <<504, 542, 2, 1>>,
    <<544, 544, 1, -130>>, <<546, 562, 2, 1>>, <<570, 570, 1, 10795>>, <<571, 571, 1, 1>>, <<573, 573, 1, -163>>,
    <<574, 574, 1, 10792>>, <<577, 577, 1, 1>>, <<579, 579, 1, -195>>, <<580, 580, 1, 69>>, <<581, 581, 1, 71>>,
    <<582, 590, 2, 1>>, <<880, 882, 2, 1>>, <<886, 886, 1, 1>>, <<895, 895, 1, 116>>, <<902, 902, 1, 38>>,
    <<904, 906, 1, 37>>, <<908, 908, 1, 64>>, <<910, 911, 1, 63>>, <<913, 929, 1, 32>>, <<931, 939, 1, 32>>,
    <<975, 975, 1, 8>>, <<984, 1006, 2, 1>>, <<1012, 1012, 1, -60>>, <<1015, 1015, 1, 1>>, <<1017, 1017, 1, -7>>,
    <<1018, 1018, 1, 1>>, <<1021, 1023, 1, -130>>, <<1024, 1039, 1, 80>>, <<1040, 1071, 1, 32>>, <<1120, 1152, 2, 1>>,
    <<1162, 1214, 2, 1>>, <<1216, 1216, 1, 15>>, <<1217, 1229, 2, 1>>, <<1232, 1326, 2, 1>>, <<1329, 1366, 1, 48>>,
    <<4256, 4293, 1, 7264>>, <<4295, 4295, 1, 7264>>, <<4301, 4301, 1, 7264>>, <<5024, 5103, 1, 38864>>, <<5104, 5109, 1, 8>>,
    <<7305, 7305, 1, 1>>, <<7312, 7354, 1, -3008>>, <<7357, 7359, 1, -3008>>, <<7680, 7828, 2, 1>>, <<7838, 7838, 1, -7615>>,
    <<7840, 7934, 2, 1>>, <<7944, 7951, 1, -8>>, <<7960, 7965, 1, -8>>, <<7976, 7983, 1, -8>>, <<7992, 7999, 1, -8>>,
    <<8008, 8013, 1, -8>>, <<8025, 8031, 2, -8>>, <<8040, 8047, 1, -8>>, <<8072, 8079, 1, -8>>, <<8088, 8095, 1, -8>>,
    <<8104, 8111, 1, -8>>, <<8120, 8121, 1, -8>>, <<8122, 8123, 1, -74>>, <<8124, 8124, 1, -9>>, <<8136, 8139, 1, -86>>,
    <<8140, 8140, 1, -9>>, <<8152, 8153, 1, -8>>, <<8154, 8155, 1, -100>>, <<8168, 8169, 1, -8>>, <<8170, 8171, 1, -112>>,
    <<8172, 8172, 1, -7>>, <<8184, 8185, 1, -128>>, <<8186, 8187, 1, -126>>, <<8188, 8188, 1, -9>>, <<8486, 8486, 1, -7517>>,
    <<8490, 8490, 1, -8383>>, <<8491, 8491, 1, -8262>>, <<8498, 8498, 1, 28>>, <<8544, 8559, 1, 16>>, <<8579, 8579, 1, 1>>,
    <<9398, 9423, 1, 26>>, <<11264, 11311, 1, 48>>, <<11360, 11360, 1, 1>>, <<11362, 11362, 1, -10743>>, <<11363, 11363, 1, -3814>>,
    <<11364, 11364, 1, -10727>>, <<11367, 11371, 2, 1>>, <<11373, 11373, 1, -10780>>, <<11374, 11374, 1, -10749>>, <<11375, 11375, 1, -10783>>,
    <<11376, 11376, 1, -10782>>, <<11378, 11378, 1, 1>>, <<11381, 11381, 1, 1>>, <<11390, 11391, 1, -10815>>, <<11392, 11490, 2, 1>>,
    <<11499, 11501, 2, 1>>, <<11506, 11506, 1, 1>>, <<42560, 42604, 2, 1>>, <<42624, 42650, 2, 1>>, <<42786, 42798, 2, 1>>,
    <<42802, 42862, 2, 1>>, <<42873, 42875, 2, 1>>, <<42877, 42877, 1, -35332>>, <<42878, 42886, 2, 1>>, <<42891, 42891, 1, 1>>,
    <<42893, 42893, 1, -42280>>, <<42896, 42898, 2, 1>>, <<42902, 42920, 2, 1>>, <<42922, 42922, 1, -42308>>, <<42923, 42923, 1, -42319>>,
    <<42924, 42924, 1, -42315>>, <<42925, 42925, 1, -42305>>, <<42926, 42926, 1, -42308>>, <<42928, 42928, 1, -42258>>, <<42929, 42929, 1, -42282>>,
    <<42930, 42930, 1, -42261>>, <<42931, 42931, 1, 928>>, <<42932, 42946, 2, 1>>, <<42948, 42948, 1, -48>>, <<42949, 42949, 1, -42307>>,
    <<42950, 42950, 1, -35384>>, <<42951, 42953, 2, 1>>, <<42955, 42955, 1, -42343>>, <<42956, 42970, 2, 1>>, <<42972, 42972, 1, -42561>>,
    <<42997, 42997, 1, 1>>, <<65313, 65338, 1, 32>>, <<66560, 66599, 1, 40>>, <<66736, 66771, 1, 40>>, <<66928, 66938, 1, 39>>,
    <<66940, 66954, 1, 39>>, <<66956, 66962, 1, 39>>, <<66964, 66965, 1, 39>>, <<68736, 68786, 1, 64>>, <<68944, 68965, 1, 32>>,
    <<71840, 71871, 1, 32>>, <<93760, 93791, 1, 32>>, <<93856, 93880, 1, 27>>, <<125184, 125217, 1, 34>>
 >>
\* the ranges of the code points that are Case_Ignorable
CaseIgnorable ==
 <<
    <<39, 39>>, <<46, 46>>, <<58, 58>>, <<94, 94>>, <<96, 96>>, <<168, 168>>, <<173, 173>>,
    <<175, 175>>, <<180, 180>>, <<183, 184>>, <<688, 879>>, <<884, 885>>, <<890, 890>>, <<900, 901>>,
    <<903, 903>>, <<1155, 1161>>, <<1369, 1369>>, <<1375, 1375>>, <<1425, 1469>>, <<1471, 1471>>, <<1473, 1474>>,
    <<1476, 1477>>, <<1479, 1479>>, <<1524, 1524>>, <<1536, 1541>>, <<1552, 1562>>, <<1564, 1564>>, <<1600, 1600>>,
    <<1611, 1631>>, <<1648, 1648>>, <<1750, 1757>>, <<1759, 1768>>, <<1770, 1773>>, <<1807, 1807>>, <<1809, 1809>>,
    <<1840, 1866>>, <<1958, 1968>>, <<2027, 2037>>, <<2042, 2042>>, <<2045, 2045>>, <<2070, 2093>>, <<2137, 2139>>,
    <<2184, 2184>>, <<2192, 2193>>, <<2199, 2207>>, <<2249, 2306>>, <<2362, 2362>>, <<2364, 2364>>, <<2369, 2376>>,
    <<2381, 2381>>, <<2385, 2391>>, <<2402, 2403>>, <<2417, 2417>>, <<2433, 2433>>, <<2492, 2492>>, <<2497, 2500>>,
    <<2509, 2509>>, <<2530, 2531>>, <<2558, 2558>>, <<2561, 2562>>, <<2620, 2620>>, <<2625, 2626>>, <<2631, 2632>>,
    <<2635, 2637>>, <<2641, 2641>>, <<2672, 2673>>, <<2677, 2677>>, <<2689, 2690>>, <<2748, 2748>>, <<2753, 2757>>,
    <<2759, 2760>>, <<2765, 2765>>, <<2786, 2787>>, <<2810, 2815>>, <<2817, 2817>>, <<2876, 2876>>, <<2879, 2879>>,
    <<2881, 2884>>, <<2893, 2893>>, <<2901, 2902>>, <<2914, 2915>>, <<2946, 2946>>, <<3008, 3008>>, <<3021, 3021>>,
    <<3072, 3072>>, <<3076, 3076>>, <<3132, 3132>>, <<3134, 3136>>, <<3142, 3144>>, <<3146, 3149>>, <<3157, 3158>>,
    <<3170, 3171>>, <<3201, 3201>>, <<3260, 3260>>, <<3263, 3263>>, <<3270, 3270>>, <<3276, 3277>>, <<3298, 3299>>,
    <<3328, 3329>>, <<3387, 3388>>, <<3393, 3396>>, <<3405, 3405>>, <<3426, 3427>>, <<3457, 3457>>, <<3530, 3530>>,
    <<3538, 3540>>, <<3542, 3542>>, <<3633, 3633>>, <<3636, 3642>>, <<3654, 3662>>, <<3761, 3761>>, <<3764, 3772>>,
    <<3782, 3782>>, <<3784, 3790>>, <<3864, 3865>>, <<3893, 3893>>, <<3895, 3895>>, <<3897, 3897>>, <<3953, 3966>>,
    <<3968, 3972>>, <<3974, 3975>>, <<3981, 3991>>, <<3993, 4028>>, <<4038, 4038>>, <<4141, 4144>>, <<4146, 4151>>,
    <<4153, 4154>>, <<4157, 4158>>, <<4184, 4185>>, <<4190, 4192>>, <<4209, 4212>>, <<4226, 4226>>, <<4229, 4230>>,
    <<4237, 4237>>, <<4253, 4253>>, <<4348, 4348>>, <<4957, 4959>>, <<5906, 5908>>, <<5938, 5939>>, <<5970, 5971>>,
    <<6002, 6003>>, <<6068, 6069>>, <<6071, 6077>>, <<6086, 6086>>, <<6089, 6099>>, <<6103, 6103>>, <<6109, 6109>>,
    <<6155, 6159>>, <<6211, 6211>>, <<6277, 6278>>, <<6313, 6313>>, <<6432, 6434>>, <<6439, 6440>>, <<6450, 6450>>,
    <<6457, 6459>>, <<6679, 6680>>, <<6683, 6683>>, <<6742, 6742>>, <<6744, 6750>>, <<6752, 6752>>, <<6754, 6754>>,
    <<6757, 6764>>, <<6771, 6780>>, <<6783, 6783>>, <<6823, 6823>>, <<6832, 6877>>, <<6880, 6891>>, <<6912, 6915>>,
    <<6964, 6964>>, <<6966, 6970>>, <<6972, 6972>>, <<6978, 6978>>, <<7019, 7027>>, <<7040, 7041>>, <<7074, 7077>>,
    <<7080, 7081>>, <<7083, 7085>>, <<7142, 7142>>, <<7144, 7145>>, <<7149, 7149>>, <<7151, 7153>>, <<7212, 7219>>,
    <<7222, 7223>>, <<7288, 7293>>, <<7376, 7378>>, <<7380, 7392>>, <<7394, 7400>>, <<7405, 7405>>, <<7412, 7412>>,
    <<7416, 7417>>, <<7468, 7530>>, <<7544, 7544>>, <<7579, 7679>>, <<8125, 8125>>, <<8127, 8129>>, <<8141, 8143>>,
    <<8157, 8159>>, <<8173, 8175>>, <<8189, 8190>>, <<8203, 8207>>, <<8216, 8217>>, <<8228, 8228>>, <<8231, 8231>>,
    <<8234, 8238>>, <<8288, 8292>>, <<8294, 8303>>, <<8305, 8305>>, <<8319, 8319>>, <<8336, 8348>>, <<8400, 8432>>,
    <<11388, 11389>>, <<11503, 11505>>, <<11631, 11631>>, <<11647, 11647>>, <<11744, 11775>>, <<11823, 11823>>, <<12293, 12293>>,
    <<12330, 12333>>, <<12337, 12341>>, <<12347, 12347>>, <<12441, 12446>>, <<12540, 12542>>, <<40981, 40981>>, <<42232, 42237>>,
    <<42508, 42508>>, <<42607, 42610>>, <<42612, 42621>>, <<42623, 42623>>, <<42652, 42655>>, <<42736, 42737>>, <<42752, 42785>>,
    <<42864, 42864>>, <<42888, 42890>>, <<42993, 42996>>, <<43000, 43001>>, <<43010, 43010>>, <<43014, 43014>>, <<43019, 43019>>,
    <<43045, 43046>>, <<43052, 43052>>, <<43204, 43205>>, <<43232, 43249>>, <<43263, 43263>>, <<43302, 43309>>, <<43335, 43345>>,
    <<43392, 43394>>, <<43443, 43443>>, <<43446, 43449>>, <<43452, 43453>>, <<43471, 43471>>, <<43493, 43494>>, <<43561, 43566>>,
    <<43569, 43570>>, <<43573, 43574>>, <<43587, 43587>>, <<43596, 43596>>, <<43632, 43632>>, <<43644, 43644>>, <<43696, 43696>>,
    <<43698, 43700>>, <<43703, 43704>>, <<43710, 43711>>, <<43713, 43713>>, <<43741, 43741>>, <<43756, 43757>>, <<43763, 43764>>,
    <<43766, 43766>>, <<43867, 43871>>, <<43881, 43883>>, <<44005, 44005>>, <<44008, 44008>>, <<44013, 44013>>, <<64286, 64286>>,
    <<64434, 64450>>, <<65024, 65039>>, <<65043, 65043>>, <<65056, 65071>>, <<65106, 65106>>, <<65109, 65109>>, <<65279, 65279>>,
    <<65287, 65287>>, <<65294, 65294>>, <<65306, 65306>>, <<65342, 65342>>, <<65344, 65344>>, <<65392, 65392>>, <<65438, 65439>>,
    <<65507, 65507>>, <<65529, 65531>>, <<66045, 66045>>, <<66272, 66272>>, <<66422, 66426>>, <<67456, 67461>>, <<67463, 67504>>,
    <<67506, 67514>>, <<68097, 68099>>, <<68101, 68102>>, <<68108, 68111>>, <<68152, 68154>>, <<68159, 68159>>, <<68325, 68326>>,
    <<68900, 68903>>, <<68942, 68942>>, <<68969, 68973>>, <<68975, 68975>>, <<69291, 69292>>, <<69317, 69317>>, <<69370, 69375>>,
    <<69446, 69456>>, <<69506, 69509>>, <<69633, 69633>>, <<69688, 69702>>, <<69744, 69744>>, <<69747, 69748>>, <<69759, 69761>>,
    <<69811, 69814>>, <<69817, 69818>>, <<69821, 69821>>, <<69826, 69826>>, <<69837, 69837>>, <<69888, 69890>>, <<69927, 69931>>,
    <<69933, 69940>>, <<70003, 70003>>, <<70016, 70017>>, <<70070, 70078>>, <<70089, 70092>>, <<70095, 70095>>, <<70191, 70193>>,
    <<70196, 70196>>, <<70198, 70199>>, <<70206, 70206>>, <<70209, 70209>>, <<70367, 70367>>, <<70371, 70378>>, <<70400, 70401>>,
    <<70459, 70460>>, <<70464, 70464>>, <<70502, 70508>>, <<70512, 70516>>, <<70587, 70592>>, <<70606, 70606>>, <<70608, 70608>>,
    <<70610, 70610>>, <<70625, 70626>>, <<70712, 70719>>, <<70722, 70724>>, <<70726, 70726>>, <<70750, 70750>>, <<70835, 70840>>,
    <<70842, 70842>>, <<70847, 70848>>, <<70850, 70851>>, <<71090, 71093>>, <<71100, 71101>>, <<71103, 71104>>, <<71132, 71133>>,
    <<71219, 71226>>, <<71229, 71229>>, <<71231, 71232>>, <<71339, 71339>>, <<71341, 71341>>, <<71344, 71349>>, <<71351, 71351>>,
    <<71453, 71453>>, <<71455, 71455>>, <<71458, 71461>>, <<71463, 71467>>, <<71727, 71735>>, <<71737, 71738>>, <<71995, 71996>>,
    <<71998, 71998>>, <<72003, 72003>>, <<72148, 72151>>, <<72154, 72155>>, <<72160, 72160>>, <<72193, 72202>>, <<72243, 72248>>,
    <<72251, 72254>>, <<72263, 72263>>, <<72273, 72278>>, <<72281, 72283>>, <<72330, 72342>>, <<72344, 72345>>, <<72544, 72544>>,
    <<72546, 72548>>, <<72550, 72550>>, <<72752, 72758>>, <<72760, 72765>>, <<72767, 72767>>, <<72850, 72871>>, <<72874, 72880>>,
    <<72882, 72883>>, <<72885, 72886>>, <<73009, 73014>>, <<73018, 73018>>, <<73020, 73021>>, <<73023, 73029>>, <<73031, 73031>>,
    <<73104, 73105>>, <<73109, 73109>>, <<73111, 73111>>, <<73177, 73177>>, <<73459, 73460>>, <<73472, 73473>>, <<73526, 73530>>,
    <<73536, 73536>>, <<73538, 73538>>, <<73562, 73562>>, <<78896, 78912>>, <<78919, 78933>>, <<90398, 90409>>, <<90413, 90415>>,
    <<92912, 92916>>, <<92976, 92982>>, <<92992, 92995>>, <<93504, 93506>>, <<93547, 93548>>, <<94031, 94031>>, <<94095, 94111>>,
    <<94176, 94177>>, <<94179, 94180>>, <<94194, 94195>>, <<110576, 110579>>, <<110581, 110587>>, <<110589, 110590>>, <<113821, 113822>>,
    <<113824, 113827>>, <<118528, 118573>>, <<118576, 118598>>, <<119143, 119145>>, <<119155, 119170>>, <<119173, 119179>>, <<119210, 119213>>,
    <<119362, 119364>>, <<121344, 121398>>, <<121403, 121452>>, <<121461, 121461>>, <<121476, 121476>>, <<121499, 121503>>, <<121505, 121519>>,
    <<122880, 122886>>, <<122888, 122904>>, <<122907, 122913>>, <<122915, 122916>>, <<122918, 122922>>, <<122928, 122989>>, <<123023, 123023>>,
    <<123184, 123197>>, <<123566, 123566>>, <<123628, 123631>>, <<124139, 124143>>, <<124398, 124399>>, <<124643, 124643>>, <<124646, 124646>>,
    <<124654, 124655>>, <<124661, 124661>>, <<124671, 124671>>, <<125136, 125142>>, <<125252, 125259>>, <<127995, 127999>>, <<917505, 917505>>,
    <<917536, 917631>>, <<917760, 917999>>
 >>
\* the ranges of the code points that are Cased and not Case_Ignorable
CasedLetters ==
 <<
    <<65, 90>>, <<97, 122>>, <<170, 170>>, <<181, 181>>, <<186, 186>>, <<192, 214>>, <<216, 246>>,
    <<248, 442>>, <<444, 447>>, <<452, 659>>, <<662, 687>>, <<880, 883>>, <<886, 887>>, <<891, 893>>,
    <<895, 895>>, <<902, 902>>, <<904, 906>>, <<908, 908>>, <<910, 929>>, <<931, 1013>>, <<1015, 1153>>,
    <<1162, 1327>>, <<1329, 1366>>, <<1376, 1416>>, <<4256, 4293>>, <<4295, 4295>>, <<4301, 4301>>, <<4304, 4346>>,
    <<4349, 4351>>, <<5024, 5109>>, <<5112, 5117>>, <<7296, 7306>>, <<7312, 7354>>, <<7357, 7359>>, <<7424, 7467>>,
    <<7531, 7543>>, <<7545, 7578>>, <<7680, 7957>>, <<7960, 7965>>, <<7968, 8005>>, <<8008, 8013>>, <<8016, 8023>>,
    <<8025, 8025>>, <<8027, 8027>>, <<8029, 8029>>, <<8031, 8061>>, <<8064, 8116>>, <<8118, 8124>>, <<8126, 8126>>,
    <<8130, 8132>>, <<8134, 8140>>, <<8144, 8147>>, <<8150, 8155>>, <<8160, 8172>>, <<8178, 8180>>, <<8182, 8188>>,
    <<8450, 8450>>, <<8455, 8455>>, <<8458, 8467>>, <<8469, 8469>>, <<8473, 8477>>, <<8484, 8484>>, <<8486, 8486>>,
    <<8488, 8488>>, <<8490, 8493>>, <<8495, 8500>>, <<8505, 8505>>, <<8508, 8511>>, <<8517, 8521>>, <<8526, 8526>>,
    <<8544, 8575>>, <<8579, 8580>>, <<9398, 9449>>, <<11264, 11387>>, <<11390, 11492>>, <<11499, 11502>>, <<11506, 11507>>,
    <<11520, 11557>>, <<11559, 11559>>, <<11565, 11565>>, <<42560, 42605>>, <<42624, 42651>>, <<42786, 42863>>, <<42865, 42887>>,
    <<42891, 42894>>, <<42896, 42972>>, <<42997, 42998>>, <<43002, 43002>>, <<43824, 43866>>, <<43872, 43880>>, <<43888, 43967>>,
    <<64256, 64262>>, <<64275, 64279>>, <<65313, 65338>>, <<65345, 65370>>, <<66560, 66639>>, <<66736, 66771>>, <<66776, 66811>>,
    <<66928, 66938>>, <<66940, 66954>>, <<66956, 66962>>, <<66964, 66965>>, <<66967, 66977>>, <<66979, 66993>>, <<66995, 67001>>,
    <<67003, 67004>>, <<68736, 68786>>, <<68800, 68850>>, <<68944, 68965>>, <<68976, 68997>>, <<71840, 71903>>, <<93760, 93823>>,
    <<93856, 93880>>, <<93883, 93907>>, <<119808, 119892>>, <<119894, 119964>>, <<119966, 119967>>, <<119970, 119970>>, <<119973, 119974>>,
    <<119977, 119980>>, <<119982, 119993>>, <<119995, 119995>>, <<119997, 120003>>, <<120005, 120069>>, <<120071, 120074>>, <<120077, 120084>>,
    <<120086, 120092>>, <<120094, 120121>>, <<120123, 120126>>, <<120128, 120132>>, <<120134, 120134>>, <<120138, 120144>>, <<120146, 120485>>,
    <<120488, 120512>>, <<120514, 120538>>, <<120540, 120570>>, <<120572, 120596>>, <<120598, 120628>>, <<120630, 120654>>, <<120656, 120686>>,
    <<120688, 120712>>, <<120714, 120744>>, <<120746, 120770>>, <<120772, 120779>>, <<122624, 122633>>, <<122635, 122654>>, <<122661, 122666>>,
    <<125184, 125251>>, <<127280, 127305>>, <<127312, 127337>>, <<127344, 127369>>
 >>
InRanges(cp, ranges) == \E r \in 1..Len(ranges) : ranges[r][1] <= cp /\ cp <= ranges[r][2]
\* StringToCodePoints, from the code unit at i on
RECURSIVE StringToCodePoints(_, _)
StringToCodePoints(str, i) ==
    IF i > Len(str) THEN <<>>
    ELSE IF i < Len(str) /\ str[i] \in 55296..56319 /\ str[i + 1] \in 56320..57343
    THEN <<65536 + (str[i] - 55296) * 1024 + (str[i + 1] - 56320)>>
             \o StringToCodePoints(str, i + 2)
    ELSE <<str[i]>> \o StringToCodePoints(str, i + 1)
\* UTF16EncodeCodePoint
UTF16EncodeCodePoint(cp) ==
    IF cp < 65536 THEN <<cp>>
    ELSE <<55296 + (cp - 65536) \div 1024, 56320 + ((cp - 65536) % 1024)>>
\* the lower case mapping of a code point that maps to one code point
lowerChar(cp) ==
    IF cp < 128 THEN IF cp \in 65..90 THEN cp + 32 ELSE cp
    ELSE LET Hit(r) == /\ LowerCaseRuns[r][1] <= cp /\ cp <= LowerCaseRuns[r][2]
                       /\ (cp - LowerCaseRuns[r][1]) % LowerCaseRuns[r][3] = 0
         IN  IF \E r \in 1..Len(LowerCaseRuns) : Hit(r)
             THEN cp + LowerCaseRuns[CHOOSE r \in 1..Len(LowerCaseRuns) : Hit(r)][4]
             ELSE cp
(* Final_Sigma: the capital sigma at i comes after a cased letter and is   *)
(* not before one, case-ignorable code points in between not counting.      *)
FinalSigma(points, i) ==
    LET before == {j \in 1..(i - 1) : ~InRanges(points[j], CaseIgnorable)}
        after == {j \in (i + 1)..Len(points) : ~InRanges(points[j], CaseIgnorable)}
        last == CHOOSE j \in before : \A k \in before : k <= j
        next == CHOOSE j \in after : \A k \in after : j <= k
    IN  /\ before # {} /\ InRanges(points[last], CasedLetters)
        /\ after = {} \/ ~InRanges(points[next], CasedLetters)
(* The two mappings that are not one to one or depend on the context: the  *)
(* dotted capital I (304) gives i and the combining dot, the capital sigma  *)
(* (931) the final sigma (962) at the end of a word.                        *)
RECURSIVE lowerFrom(_, _)
lowerFrom(points, i) ==
    IF i > Len(points) THEN <<>>
    ELSE (IF points[i] = 304 THEN <<105, 775>>
          ELSE IF points[i] = 931 /\ FinalSigma(points, i) THEN <<962>>
          ELSE UTF16EncodeCodePoint(lowerChar(points[i])))
         \o lowerFrom(points, i + 1)
\* String.prototype.toLowerCase
toLowerCase(str) == lowerFrom(StringToCodePoints(str, 1), 1)
\* String.prototype.trim: the white space at both ends goes
RECURSIVE trimStart(_)
trimStart(str) ==
    IF str # <<>> /\ Head(str) \in WhiteSpace THEN trimStart(Tail(str)) ELSE str
RECURSIVE trimEnd(_)
trimEnd(str) ==
    IF str # <<>> /\ str[Len(str)] \in WhiteSpace
    THEN trimEnd(SubSeq(str, 1, Len(str) - 1)) ELSE str
trim(str) == trimEnd(trimStart(str))
\* Number.prototype.toString: the quiz's random id prints in decimal
toString(id) == ToText(id)
\* const cleanName = pokemonName.toString().toLowerCase().trim(), of a string
cleanNameOf(pokemonName) == trim(toLowerCase(pokemonName))

\* Map.prototype.set: the entry of a key is created or replaced
cacheSet(cache, key, value) ==
    [k \in DOMAIN cache \cup {key} |-> IF k = key THEN value ELSE cache[k]]

(* capitalizeFirst: str.charAt(0).toUpperCase() + str.slice(1).  charAt(0)  *)
(* is one code unit, half a surrogate pair included, and toUpperCase gives  *)
(* its upper case mapping, which for some letters is more than one letter.  *)
\* the code units with an upper case mapping that is another single code
\* unit, past ASCII, in runs <<first, last, step, delta>> (Unicode 17)
UpperCaseRuns ==
 <<
    <<181, 181, 1, 743>>, <<224, 246, 1, -32>>, <<248, 254, 1, -32>>, <<255, 255, 1, 121>>, <<257, 303, 2, -1>>,
    <<305, 305, 1, -232>>, <<307, 311, 2, -1>>, <<314, 328, 2, -1>>, <<331, 375, 2, -1>>, <<378, 382, 2, -1>>,
    <<383, 383, 1, -300>>, <<384, 384, 1, 195>>, <<387, 389, 2, -1>>, <<392, 392, 1, -1>>, <<396, 396, 1, -1>>,
    <<402, 402, 1, -1>>, <<405, 405, 1, 97>>, <<409, 409, 1, -1>>, <<410, 410, 1, 163>>, <<411, 411, 1, 42561>>,
    <<414, 414, 1, 130>>, <<417, 421, 2, -1>>, <<424, 424, 1, -1>>, <<429, 429, 1, -1>>, <<432, 432, 1, -1>>,
    <<436, 438, 2, -1>>, <<441, 441, 1, -1>>, <<445, 445, 1, -1>>, <<447, 447, 1, 56>>, <<453, 453, 1, -1>>,
    <<454, 454, 1, -2>>, <<456, 456, 1, -1>>, <<457, 457, 1, -2>>, <<459, 459, 1, -1>>, <<460, 460, 1, -2>>,
    <<462, 476, 2, -1>>, <<477, 477, 1, -79>>, <<479, 495, 2, -1>>, <<498, 498, 1, -1>>, <<499, 499, 1, -2>>,
    <<501, 501, 1, -1>>, <<505, 543, 2, -1>>, <<547, 563, 2, -1>>, <<572, 572, 1, -1>>, <<575, 576, 1, 10815>>,
    <<578, 578, 1, -1>>, <<583, 591, 2, -1>>, <<592, 592, 1, 10783>>, <<593, 593, 1, 10780>>, <<594, 594, 1, 10782>>,
    <<595, 595, 1, -210>>, <<596, 596, 1, -206>>, <<598, 599, 1, -205>>, <<601, 601, 1, -202>>, <<603, 603, 1, -203>>,
    <<604, 604, 1, 42319>>, <<608, 608, 1, -205>>, <<609, 609, 1, 42315>>, <<611, 611, 1, -207>>, <<612, 612, 1, 42343>>,
    <<613, 613, 1, 42280>>, <<614, 614, 1, 42308>>, <<616, 616, 1, -209>>, <<617, 617, 1, -211>>, <<618, 618, 1, 42308>>,
    <<619, 619, 1, 10743>>, <<620, 620, 1, 42305>>, <<623, 623, 1, -211>>, <<625, 625, 1, 10749>>, <<626, 626, 1, -213>>,
    <<629, 629, 1, -214>>, <<637, 637, 1, 10727>>, <<640, 640, 1, -218>>, <<642, 642, 1, 42307>>, <<643, 643, 1, -218>>,
    <<647, 647, 1, 42282>>, <<648, 648, 1, -218>>, <<649, 649, 1, -69>>, <<650, 651, 1, -217>>, <<652, 652, 1, -71>>,
    <<658, 658, 1, -219>>, <<669, 669, 1, 42261>>, <<670, 670, 1, 42258>>, <<837, 837, 1, 84>>, <<881, 883, 2, -1>>,
    <<887, 887, 1, -1>>, <<891, 893, 1, 130>>, <<940, 940, 1, -38>>, <<941, 943, 1, -37>>, <<945, 961, 1, -32>>,
    <<962, 962, 1, -31>>, <<963, 971, 1, -32>>, <<972, 972, 1, -64>>, <<973, 974, 1, -63>>, <<976, 976, 1, -62>>,
    <<977, 977, 1, -57>>, <<981, 981, 1, -47>>, <<982, 982, 1, -54>>, <<983, 983, 1, -8>>, <<985, 1007, 2, -1>>,
    <<1008, 1008, 1, -86>>, <<1009, 1009, 1, -80>>, <<1010, 1010, 1, 7>>, <<1011, 1011, 1, -116>>, <<1013, 1013, 1, -96>>,
    <<1016, 1016, 1, -1>>, <<1019, 1019, 1, -1>>, <<1072, 1103, 1, -32>>, <<1104, 1119, 1, -80>>, <<1121, 1153, 2, -1>>,
    <<1163, 1215, 2, -1>>, <<1218, 1230, 2, -1>>, <<1231, 1231, 1, -15>>, <<1233, 1327, 2, -1>>, <<1377, 1414, 1, -48>>,
    <<4304, 4346, 1, 3008>>, <<4349, 4351, 1, 3008>>, <<5112, 5117, 1, -8>>, <<7296, 7296, 1, -6254>>, <<7297, 7297, 1, -6253>>,
    <<7298, 7298, 1, -6244>>, <<7299, 7300, 1, -6242>>, <<7301, 7301, 1, -6243>>, <<7302, 7302, 1, -6236>>, <<7303, 7303, 1, -6181>>,
    <<7304, 7304, 1, 35266>>, <<7306, 7306, 1, -1>>, <<7545, 7545, 1, 35332>>, <<7549, 7549, 1, 3814>>, <<7566, 7566, 1, 35384>>,
    <<7681, 7829, 2, -1>>, <<7835, 7835, 1, -59>>, <<7841, 7935, 2, -1>>, <<7936, 7943, 1, 8>>, <<7952, 7957, 1, 8>>,
    <<7968, 7975, 1, 8>>, <<7984, 7991, 1, 8>>, <<8000, 8005, 1, 8>>, <<8017, 8023, 2, 8>>, <<8032, 8039, 1, 8>>,
    <<8048, 8049, 1, 74>>, <<8050, 8053, 1, 86>>, <<8054, 8055, 1, 100>>, <<8056, 8057, 1, 128>>, <<8058, 8059, 1, 112>>,
    <<8060, 8061, 1, 126>>, <<8112, 8113, 1, 8>>, <<8126, 8126, 1, -7205>>, <<8144, 8145, 1, 8>>, <<8160, 8161, 1, 8>>,
    <<8165, 8165, 1, 7>>, <<8526, 8526, 1, -28>>, <<8560, 8575, 1, -16>>, <<8580, 8580, 1, -1>>, <<9424, 9449, 1, -26>>,
    <<11312, 11359, 1, -48>>, <<11361, 11361, 1, -1>>, <<11365, 11365, 1, -10795>>, <<11366, 11366, 1, -10792>>, <<11368, 11372, 2, -1>>,
    <<11379, 11379, 1, -1>>, <<11382, 11382, 1, -1>>, <<11393, 11491, 2, -1>>, <<11500, 11502, 2, -1>>, <<11507, 11507, 1, -1>>,
    <<11520, 11557, 1, -7264>>, <<11559, 11559, 1, -7264>>, <<11565, 11565, 1, -7264>>, <<42561, 42605, 2, -1>>, <<42625, 42651, 2, -1>>,
    <<42787, 42799, 2, -1>>, <<42803, 42863, 2, -1>>, <<42874, 42876, 2, -1>>, <<42879, 42887, 2, -1>>, <<42892, 42892, 1, -1>>,
    <<42897, 42899, 2, -1>>, <<42900, 42900, 1, 48>>, <<42903, 42921, 2, -1>>, <<42933, 42947, 2, -1>>, <<42952, 42954, 2, -1>>,
    <<42957, 42971, 2, -1>>, <<42998, 42998, 1, -1>>, <<43859, 43859, 1, -928>>, <<43888, 43967, 1, -38864>>, <<65345, 65370, 1, -32>>
 >>
\* the code units whose upper case mapping is several code units
UpperCaseSpecial ==
 <<
    <<223, <<83, 83>>>>, <<329, <<700, 78>>>>, <<496, <<74, 780>>>>, <<912, <<921, 776, 769>>>>,
    <<944, <<933, 776, 769>>>>, <<1415, <<1333, 1362>>>>, <<7830, <<72, 817>>>>, <<7831, <<84, 776>>>>,
    <<7832, <<87, 778>>>>, <<7833, <<89, 778>>>>, <<7834, <<65, 702>>>>, <<8016, <<933, 787>>>>,
    <<8018, <<933, 787, 768>>>>, <<8020, <<933, 787, 769>>>>, <<8022, <<933, 787, 834>>>>, <<8064, <<7944, 921>>>>,
    <<8065, <<7945, 921>>>>, <<8066, <<7946, 921>>>>, <<8067, <<7947, 921>>>>, <<8068, <<7948, 921>>>>,
    <<8069, <<7949, 921>>>>, <<8070, <<7950, 921>>>>, <<8071, <<7951, 921>>>>, <<8072, <<7944, 921>>>>,
    <<8073, <<7945, 921>>>>, <<8074, <<7946, 921>>>>, <<8075, <<7947, 921>>>>, <<8076, <<7948, 921>>>>,
    <<8077, <<7949, 921>>>>, <<8078, <<7950, 921>>>>, <<8079, <<7951, 921>>>>, <<8080, <<7976, 921>>>>,
    <<8081, <<7977, 921>>>>, <<8082, <<7978, 921>>>>, <<8083, <<7979, 921>>>>, <<8084, <<7980, 921>>>>,
    <<8085, <<7981, 921>>>>, <<8086, <<7982, 921>>>>, <<8087, <<7983, 921>>>>, <<8088, <<7976, 921>>>>,
    <<8089, <<7977, 921>>>>, <<8090, <<7978, 921>>>>, <<8091, <<7979, 921>>>>, <<8092, <<7980, 921>>>>,
    <<8093, <<7981, 921>>>>, <<8094, <<7982, 921>>>>, <<8095, <<7983, 921>>>>, <<8096, <<8040, 921>>>>,
    <<8097, <<8041, 921>>>>, <<8098, <<8042, 921>>>>, <<8099, <<8043, 921>>>>, <<8100, <<8044, 921>>>>,
    <<8101, <<8045, 921>>>>, <<8102, <<8046, 921>>>>, <<8103, <<8047, 921>>>>, <<8104, <<8040, 921>>>>,
    <<8105, <<8041, 921>>>>, <<8106, <<8042, 921>>>>, <<8107, <<8043, 921>>>>, <<8108, <<8044, 921>>>>,
    <<8109, <<8045, 921>>>>, <<8110, <<8046, 921>>>>, <<8111, <<8047, 921>>>>, <<8114, <<8122, 921>>>>,
    <<8115, <<913, 921>>>>, <<8116, <<902, 921>>>>, <<8118, <<913, 834>>>>, <<8119, <<913, 834, 921>>>>,
    <<8124, <<913, 921>>>>, <<8130, <<8138, 921>>>>, <<8131, <<919, 921>>>>, <<8132, <<905, 921>>>>,
    <<8134, <<919, 834>>>>, <<8135, <<919, 834, 921>>>>, <<8140, <<919, 921>>>>, <<8146, <<921, 776, 768>>>>,
    <<8147, <<921, 776, 769>>>>, <<8150, <<921, 834>>>>, <<8151, <<921, 776, 834>>>>, <<8162, <<933, 776, 768>>>>,
    <<8163, <<933, 776, 769>>>>, <<8164, <<929, 787>>>>, <<8166, <<933, 834>>>>, <<8167, <<933, 776, 834>>>>,
    <<8178, <<8186, 921>>>>, <<8179, <<937, 921>>>>, <<8180, <<911, 921>>>>, <<8182, <<937, 834>>>>,
    <<8183, <<937, 834, 921>>>>, <<8188, <<937, 921>>>>, <<64256, <<70, 70>>>>, <<64257, <<70, 73>>>>,
    <<64258, <<70, 76>>>>, <<64259, <<70, 70, 73>>>>, <<64260, <<70, 70, 76>>>>, <<64261, <<83, 84>>>>,
    <<64262, <<83, 84>>>>, <<64275, <<1348, 1350>>>>, <<64276, <<1348, 1333>>>>, <<64277, <<1348, 1339>>>>,
    <<64278, <<1358, 1350>>>>, <<64279, <<1348, 1341>>>>
 >>
\* toUpperCase of a string of one code unit
upperUnit(c) ==
    IF c < 128 THEN IF c \in 97..122 THEN <<c - 32>> ELSE <<c>>
    ELSE LET Hit(r) == /\ UpperCaseRuns[r][1] <= c /\ c <= UpperCaseRuns[r][2]
                       /\ (c - UpperCaseRuns[r][1]) % UpperCaseRuns[r][3] = 0
             Special(r) == UpperCaseSpecial[r][1] = c
         IN  IF \E r \in 1..Len(UpperCaseSpecial) : Special(r)
             THEN UpperCaseSpecial[CHOOSE r \in 1..Len(UpperCaseSpecial) : Special(r)][2]
             ELSE IF \E r \in 1..Len(UpperCaseRuns) : Hit(r)
             THEN <<c + UpperCaseRuns[CHOOSE r \in 1..Len(UpperCaseRuns) : Hit(r)][4]>>
             ELSE <<c>>
capitalizeFirst(str) ==
    IF str = <<>> THEN <<>> ELSE upperUnit(Head(str)) \o Tail(str)

(* The API's Pokemon.  /pokemon/<key> answers with the Pokemon whose name  *)
(* or id the key is, and the name in the answer is the Pokemon's name also  *)
(* when the key is its id.                                                  *)
Mew == Str(<<"m", "e", "w">>)
Abra == Str(<<"a", "b", "r", "a">>)
\* the ids that are passed as keys
ApiIds == {1, 7, 25, 150, 1010}
\* the name of the Pokemon of an id, in the small model
NameOfId(id) ==
    CASE id = 1 -> Str(<<"b", "u", "l", "b">>)
      [] id = 7 -> Mew
      [] id = 25 -> Str(<<"u", "n", "o">>)
      [] id = 150 -> Abra
      [] id = 1010 -> Str(<<"h", "o", "-", "o", "h">>)
\* pokemonData.name of the answer to /pokemon/<cleanName>
ApiName(cleanName) ==
    IF \E id \in ApiIds : toString(id) = cleanName
    THEN NameOfId(CHOOSE id \in ApiIds : toString(id) = cleanName)
    ELSE cleanName

\* const popularNames of preloadPopularPokemon
popularNames ==
    << Str(<<"p", "i", "k", "a", "c", "h", "u">>),
       Str(<<"c", "h", "a", "r", "i", "z", "a", "r", "d">>),
       Str(<<"b", "l", "a", "s", "t", "o", "i", "s", "e">>),
       Str(<<"v", "e", "n", "u", "s", "a", "u", "r">>) >>
\* a fetch() call awaited by fetchPokemon: called by the k-th turn of the preload, or not (0)
Request(req, name, k) ==
    [req |-> req, name |-> name, preload |-> k]

(* preloadPopularPokemon, from the k-th name on: fetchPokemon returns the   *)
(* names the Map has at once, and the loop awaits the fetch of the first    *)
(* it has not; 0 when the loop is through.                                  *)
RECURSIVE preloadFrom(_, _)
preloadFrom(cache, k) ==
    IF k > Len(popularNames) THEN 0
    ELSE IF cleanNameOf(popularNames[k]) \in DOMAIN cache THEN preloadFrom(cache, k + 1)
    ELSE k
\* the fetch() call the loop makes from its k-th turn on: one or none
preloadPopularPokemon(cache, k, req) ==
    IF preloadFrom(cache, k) = 0 THEN {}
    ELSE {Request(req, cleanNameOf(popularNames[preloadFrom(cache, k)]),
                  preloadFrom(cache, k))}
(* The await of request r has ended, by the answer or by the error that    *)
(* the loop catches: the preload goes on with its next name.                *)
preloadResumed(r, cache, req) ==
    IF r.preload = 0 THEN {} ELSE preloadPopularPokemon(cache, r.preload + 1, req)
\* initializeApp: the modules start the preload when the page is loaded
initializeApp(im, req) ==
    IF im = "gaming" THEN preloadPopularPokemon(<<>>, 1, req) ELSE {}

\* what a damage calculation reads: the two slots and the three fields
battleInputs ==
    <<currentBattleSetup, attackerLevel, attackerMovePower, attackerMoveType>>

(* The calculation kept for comparison is marked once a calculation runs  *)
(* again, past its early return, on the inputs it had.                      *)
noteCalculation ==
    firstCalculation' =
        IF /\ IsSome(firstCalculation)
           /\ IsSome(currentBattleSetup'.attacker) /\ IsSome(currentBattleSetup'.defender)
           /\ TheValue(firstCalculation).inputs =
                 <<currentBattleSetup', attackerLevel', attackerMovePower', attackerMoveType'>>
        THEN Some([TheValue(firstCalculation) EXCEPT !.repeated = TRUE])
        ELSE firstCalculation

\* the quiz state as declared
NoQuizGame ==
    [currentPokemon |-> None, score |-> 0, streak |-> 0, options |-> <<>>,
     revealed |-> FALSE]

\* generateNewQuizQuestion calls followed fetch by fetch at a time
MaxQuizCalls == 2
QuizCallIds == 1..MaxQuizCalls

(* The page once the scripts are loaded and initializeGamingFeatures has   *)
(* hidden the five sections: nothing searched, shiny mode off.              *)
InitPage ==
    /\ searches = {}
    /\ nextSearch = 1
    /\ loading = "none"
    /\ output = None
    /\ isShinyMode = FALSE
    /\ shinyImages = {}
    /\ evolutionWalks = {}
    /\ evolutionDisplay = None
    /\ movesCalls = {}
    /\ movesetContainer = None
    /\ activeButtons = {}
    /\ visibleSections = {}
    /\ quizCalls = [c \in QuizCallIds |-> None]
    /\ online = TRUE
    /\ questionScored = FALSE

(* The state of the other features once the scripts are loaded, with      *)
(* nothing in the browser's storage.                                        *)
InitFeatures ==
    /\ pokemonCache = <<>>
    /\ requests = initializeApp(impl, 1)
    /\ nextRequest = 1 + Cardinality(requests)
    /\ received = {}
    /\ favoritesPokemon = <<>>
    /\ localStorage = None
    /\ currentQuizGame = NoQuizGame
    /\ quizContainer = "empty"
    /\ currentComparisonSlots = [slot1 |-> None, slot2 |-> None]
    /\ pendingComparison = {}
    /\ firstCalculation = None
    /\ InitPage

-----------------------------------------------------------------------------
(* Operations.                                                              *)

(* The answers to fetch() calls.  A page of the modules awaits those of   *)
(* the preload whatever else it does.                                       *)
\* the object response.json() gives: a new one for every response
ResponseData(r) == [name |-> ApiName(r.name), response |-> r.req]

\* the response is ok and parses: pokemonCache.set(cleanName, pokemonData)
fetchSucceeded(r) ==
    /\ r \in requests
    /\ received' = received \cup {r}
    /\ pokemonCache' = cacheSet(pokemonCache, r.name, ResponseData(r))
    /\ requests' = (requests \ {r}) \cup preloadResumed(r, pokemonCache', nextRequest)
    /\ nextRequest' = nextRequest + Cardinality(preloadResumed(r, pokemonCache', nextRequest))
    /\ UNCHANGED <<battleVars, favoritesVars, quizVars,
                   comparisonVars, firstCalculation, pageVars>>

(* 404, another status that is not ok, a network error or a body that     *)
(* does not parse: the function throws (or returns null) before the set.    *)
fetchFailed(r) ==
    /\ r \in requests
    /\ requests' = (requests \ {r}) \cup preloadResumed(r, pokemonCache, nextRequest)
    /\ nextRequest' = nextRequest + Cardinality(preloadResumed(r, pokemonCache, nextRequest))
    /\ UNCHANGED <<battleVars, pokemonCache, received, favoritesVars,
                   quizVars, comparisonVars, firstCalculation, pageVars>>

(* An answer to a fetch() of the preload.  The cache, the favorites, the   *)
(* search, the evolution viewer and the shiny mode are followed with these  *)
(* answers arriving at any moment; the other specifications follow the page *)
(* for as long as the preload's fetch is not answered.                      *)
preloadAnswered ==
    \E r \in {q \in requests : q.preload > 0} : fetchSucceeded(r) \/ fetchFailed(r)

Init ==
    /\ impl \in Impls
    /\ currentBattleSetup = [attacker |-> None, defender |-> None]
    /\ attackerLevel = None
    /\ attackerMovePower = None
    /\ attackerMoveType = None
    /\ battleResult = None
    /\ pendingBattle = {}
    /\ InitFeatures

(* addPokemonToBattle(role) -> addToBattle(name, role) up to its await:    *)
(* the text input of a role exists only while its slot is empty.            *)
addPokemonToBattle(role, name) ==
    /\ ~IsSome(currentBattleSetup[role])
    /\ Cardinality(pendingBattle) < MaxPending
    /\ pendingBattle' = pendingBattle \cup {[name |-> name, role |-> role]}
    /\ UNCHANGED <<impl, currentBattleSetup, attackerLevel, attackerMovePower,
                   attackerMoveType, battleResult>>
    /\ UNCHANGED <<pokemonCache, featureVars>>
    /\ UNCHANGED firstCalculation

(* addToBattle after the await, fetchPokemonData having delivered a       *)
(* Pokemon and stored it under its name.                                   *)
addToBattleLoaded(p) ==
    /\ p \in pendingBattle
    /\ pendingBattle' = pendingBattle \ {p}
    /\ updateBattleDisplay([currentBattleSetup EXCEPT ![p.role] = Some(Pokedex[p.name])],
                           battleResult)
    /\ UNCHANGED impl
    /\ pokemonCache' = cacheSet(pokemonCache, cleanNameOf(NameTyped[p.name]), Pokedex[p.name])
    /\ UNCHANGED featureVars
    /\ noteCalculation

(* addToBattle after the await, the fetch having failed: main.js gets null *)
(* from fetchPokemonData, gamingController.js catches and alerts.           *)
addToBattleFailed(p) ==
    /\ p \in pendingBattle
    /\ pendingBattle' = pendingBattle \ {p}
    /\ UNCHANGED <<impl, currentBattleSetup, attackerLevel, attackerMovePower,
                   attackerMoveType, battleResult>>
    /\ UNCHANGED <<pokemonCache, featureVars>>
    /\ UNCHANGED firstCalculation

(* Faulty variant of removeFromBattle: the result area is not cleared.     *)
removeFromBattleKeepingResult(role) ==
    /\ IsSome(currentBattleSetup[role])
    /\ updateBattleDisplay([currentBattleSetup EXCEPT ![role] = None], battleResult)
    /\ UNCHANGED <<impl, pendingBattle>>
    /\ UNCHANGED <<pokemonCache, featureVars>>
    /\ noteCalculation

\* removeFromBattle(role): the Remove button of a filled slot
removeFromBattle(role) ==
    /\ IsSome(currentBattleSetup[role])
    /\ updateBattleDisplay([currentBattleSetup EXCEPT ![role] = None], None)
    /\ UNCHANGED <<impl, pendingBattle>>
    /\ UNCHANGED <<pokemonCache, featureVars>>
    /\ noteCalculation

\* initializeBattle (the battle feature is opened): updateBattleDisplay()
initializeBattle ==
    /\ updateBattleDisplay(currentBattleSetup, battleResult)
    /\ UNCHANGED <<impl, pendingBattle>>
    /\ UNCHANGED <<pokemonCache, featureVars>>
    /\ noteCalculation

\* onchange of #attacker-level
changeLevel(text) ==
    /\ IsSome(attackerLevel)
    /\ attackerLevel' = Some(text)
    /\ battleResult' = calculateBattleDamage(impl, currentBattleSetup, attackerLevel',
                            attackerMovePower, attackerMoveType, battleResult)
    /\ UNCHANGED <<impl, currentBattleSetup, attackerMovePower, attackerMoveType,
                   pendingBattle>>
    /\ UNCHANGED <<pokemonCache, featureVars>>
    /\ noteCalculation

\* onchange of #attacker-move-power
changeMovePower(text) ==
    /\ IsSome(attackerMovePower)
    /\ attackerMovePower' = Some(text)
    /\ battleResult' = calculateBattleDamage(impl, currentBattleSetup, attackerLevel,
                            attackerMovePower', attackerMoveType, battleResult)
    /\ UNCHANGED <<impl, currentBattleSetup, attackerLevel, attackerMoveType,
                   pendingBattle>>
    /\ UNCHANGED <<pokemonCache, featureVars>>
    /\ noteCalculation

\* onchange of #attacker-move-type
changeMoveType(type) ==
    /\ IsSome(attackerMoveType)
    /\ attackerMoveType' = Some(type)
    /\ battleResult' = calculateBattleDamage(impl, currentBattleSetup, attackerLevel,
                            attackerMovePower, attackerMoveType', battleResult)
    /\ UNCHANGED <<impl, currentBattleSetup, attackerLevel, attackerMovePower,
                   pendingBattle>>
    /\ UNCHANGED <<pokemonCache, featureVars>>
    /\ noteCalculation

Next ==
    \/ \E role \in Roles, name \in DOMAIN Pokedex : addPokemonToBattle(role, name)
    \/ \E p \in pendingBattle : addToBattleLoaded(p)
    \/ \E p \in pendingBattle : addToBattleFailed(p)
    \/ \E role \in Roles : removeFromBattle(role)
    \/ initializeBattle
    \/ \E text \in LevelTexts \cup {<<>>} : changeLevel(text)
    \/ \E text \in PowerTexts \cup {<<>>} : changeMovePower(text)
    \/ \E type \in MoveTypesTried \cup {DefaultMoveType} : changeMoveType(type)

Spec == Init /\ [][Next]_vars

-----------------------------------------------------------------------------
(* The calculator on its own.  A damage calculation reads the two slots    *)
(* and the three fields and writes the result area.  SpecTypes and         *)
(* SpecCalc start it from battle setups drawn from wide sets of API        *)
(* responses and field texts (the result area not yet written) and run the *)
(* handler: SpecTypes over the type compositions, SpecCalc over the stats  *)
(* and the field texts.                                                     *)

\* type names an API response can carry that the tables do not list
UnknownTypes == {"shadow", "constructor"}
\* types[]: one type, or two different ones
TypeLists(types) ==
    {<<t>> : t \in types} \cup {p \in types \X types : p[1] # p[2]}

\* every type composition against every move type, at fixed stats
TypeSetups ==
    [attacker : {Pokemon("attacker", 100, 100, <<"normal">>)},
     defender : {Pokemon("defender", 100, 100, ts) :
                    ts \in TypeLists(ElementTypes \cup UnknownTypes)},
     level : {ToText(DefaultLevel)},
     power : {ToText(DefaultPower)},
     type : ElementTypes]

\* stats and field texts, against defenders of each multiplier for a ground move
CalcLevelTexts ==
    {Str(<<"1">>), Str(<<"2">>), Str(<<"5", "0">>), Str(<<"1", "0", "0">>),
     <<>>, Str(<<"0">>), Str(<<"1", "0", "1">>), Str(<<"-", "1", "0">>), Str(<<".", "5">>),
     Str(<<"4", "0", "0", "0", "0">>), [i \in 1..22 |-> 57]}
CalcPowerTexts ==
    {Str(<<"1">>), Str(<<"3">>), Str(<<"4", "5">>), Str(<<"8", "0">>), Str(<<"9", "0">>), Str(<<"2", "0", "0">>),
     <<>>, Str(<<"0">>), Str(<<"-", "5">>)}
CalcAttackStats == {0, 100, 125}
CalcDefenseStats == {0, 35, 48, 100}
CalcDefenderTypes ==
    {<<"flying">>, <<"grass", "bug">>, <<"grass">>, <<"normal">>, <<"fire">>,
     <<"fire", "rock">>}
StatSetups ==
    [attacker : {Pokemon("attacker", a, 100, <<"normal">>) : a \in CalcAttackStats},
     defender : {Pokemon("defender", 100, d, ts) :
                    d \in CalcDefenseStats, ts \in CalcDefenderTypes},
     level : CalcLevelTexts,
     power : CalcPowerTexts,
     type : {"ground"}]

\* both slots filled and the fields set as in s, the handler not yet run
InitSetup(s) ==
    /\ impl \in Impls
    /\ currentBattleSetup =
          [attacker |-> Some(s.attacker), defender |-> Some(s.defender)]
    /\ attackerLevel = Some(s.level)
    /\ attackerMovePower = Some(s.power)
    /\ attackerMoveType = Some(s.type)
    /\ battleResult = None
    /\ pendingBattle = {}
    /\ InitFeatures

InitTypes == \E s \in TypeSetups : InitSetup(s)
InitCalc == \E s \in StatSetups : InitSetup(s)

(* Faulty variant of the call: the result is also kept in the Map, under   *)
(* the move type.                                                           *)
calculateDamageCaching ==
    /\ battleResult' = calculateBattleDamage(impl, currentBattleSetup, attackerLevel,
                            attackerMovePower, attackerMoveType, battleResult)
    /\ pokemonCache' = IF IsSome(battleResult')
                       THEN cacheSet(pokemonCache, Str(<<"r">>), TheValue(battleResult'))
                       ELSE pokemonCache
    /\ UNCHANGED <<impl, currentBattleSetup, attackerLevel, attackerMovePower,
                   attackerMoveType, pendingBattle>>
    /\ UNCHANGED <<requests, nextRequest, received, favoritesVars, quizVars,
                   comparisonVars, pageVars>>
    /\ noteCalculation

(* calculateBattleDamage() called as it stands (the onchange handler;      *)
(* calculateDamage() of gamingController.js).                               *)
calculateDamage ==
    /\ battleResult' = calculateBattleDamage(impl, currentBattleSetup, attackerLevel,
                            attackerMovePower, attackerMoveType, battleResult)
    /\ UNCHANGED <<impl, currentBattleSetup, attackerLevel, attackerMovePower,
                   attackerMoveType, pendingBattle>>
    /\ UNCHANGED <<cacheVars, favoritesVars, quizVars, comparisonVars, pageVars>>
    /\ noteCalculation

NextCalc == calculateDamage

SpecTypes == InitTypes /\ [][NextCalc]_vars
SpecCalc == InitCalc /\ [][NextCalc]_vars

-----------------------------------------------------------------------------
(* The Pokemon cache: fetchPokemon (main.js, Model/pokeapi.js) and         *)
(* fetchPokemonData (main.js) look the clean name up in the Map, await     *)
(* fetch() on a miss and store the parsed response of an ok answer.        *)

\* fetch() calls the model follows in one run
MaxRequests == 3
\* what is typed or passed as pokemonName
FetchNames == {Str(<<"m", "e", "w">>), Str(<<" ", "M", "e", "w">>), (Str(<<"M", "E", "W">>) \o <<9>>)}
\* ids passed as pokemonName
FetchIds == {7}
\* fetchPokemon / fetchPokemonData up to the await of fetch(): a hit returns the entry
fetchPokemon(pokemonName) ==
    /\ nextRequest <= MaxRequests
    /\ IF cleanNameOf(pokemonName) \in DOMAIN pokemonCache
       THEN UNCHANGED <<requests, nextRequest>>
       ELSE /\ requests' = requests \cup
                  {Request(nextRequest, cleanNameOf(pokemonName), 0)}
            /\ nextRequest' = nextRequest + 1
    /\ UNCHANGED <<battleVars, pokemonCache, received, favoritesVars, quizVars,
                   comparisonVars, firstCalculation, pageVars>>

\* clearPokemonCache(), exported by Model/pokeapi.js
clearPokemonCache ==
    /\ impl = "gaming"
    /\ pokemonCache' = <<>>
    /\ UNCHANGED <<battleVars, requests, nextRequest, received, favoritesVars,
                   quizVars, comparisonVars, firstCalculation, pageVars>>

InitCache ==
    /\ impl \in Impls
    /\ currentBattleSetup = [attacker |-> None, defender |-> None]
    /\ attackerLevel = None
    /\ attackerMovePower = None
    /\ attackerMoveType = None
    /\ battleResult = None
    /\ pendingBattle = {}
    /\ InitFeatures
NextCache ==
    \/ \E pokemonName \in FetchNames : fetchPokemon(pokemonName)
    \/ \E id \in FetchIds : fetchPokemon(toString(id))
    \/ \E r \in requests : fetchSucceeded(r)
    \/ \E r \in requests : fetchFailed(r)
    \/ clearPokemonCache
SpecCache == InitCache /\ [][NextCache]_vars

-----------------------------------------------------------------------------
(* Favorites: the list favoritesPokemon and its copy in the browser's      *)
(* storage, written with JSON.stringify and read with JSON.parse.          *)
(* Strings are tuples of code units; a JSON text is the tuple of its       *)
(* tokens.                                                                  *)

\* the values JSON knows, as far as the favorites use them
JNumber(n) == [type |-> "number", n |-> n, s |-> <<>>, a |-> <<>>]
JString(str) == [type |-> "string", n |-> 0, s |-> str, a |-> <<>>]
JNull == [type |-> "null", n |-> 0, s |-> <<>>, a |-> <<>>]
JArray(elements) == [type |-> "array", n |-> 0, s |-> <<>>, a |-> elements]
\* an object: its members [key, value] in the order of insertion
JObject(members) == [type |-> "object", n |-> 0, s |-> <<>>, a |-> members]
Member(key, value) == [key |-> key, value |-> value]
\* o[key]
getMember(o, key) == o.a[CHOOSE i \in 1..Len(o.a) : o.a[i].key = key].value

LeftBracket == Str(<<"[">>)
RightBracket == Str(<<"]">>)
LeftBrace == Str(<<"{">>)
RightBrace == Str(<<"}">>)
Comma == Str(<<",">>)
Colon == Str(<<":">>)
NullToken == Str(<<"n", "u", "l", "l">>)
quote(str) == Str(<<"\"">>) \o str \o Str(<<"\"">>)

(* Faulty variant of the members of JSON.stringify: a member that is null  *)
(* is left out, as one that is undefined would be.                          *)
RECURSIVE stringifyValue(_)
RECURSIVE stringifyMembersSkippingNull(_, _)
stringifyMembersSkippingNull(members, i) ==
    IF i > Len(members) THEN <<>>
    ELSE IF members[i].value.type = "null"
    THEN stringifyMembersSkippingNull(members, i + 1)
    ELSE (IF i > 1 THEN <<Comma>> ELSE <<>>)
         \o <<quote(members[i].key), Colon>> \o stringifyValue(members[i].value)
         \o stringifyMembersSkippingNull(members, i + 1)

\* JSON.stringify
RECURSIVE stringifyElements(_, _)
stringifyElements(elements, i) ==
    IF i > Len(elements) THEN <<>>
    ELSE (IF i > 1 THEN <<Comma>> ELSE <<>>)
         \o stringifyValue(elements[i]) \o stringifyElements(elements, i + 1)
RECURSIVE stringifyMembers(_, _)
stringifyMembers(members, i) ==
    IF i > Len(members) THEN <<>>
    ELSE (IF i > 1 THEN <<Comma>> ELSE <<>>)
         \o <<quote(members[i].key), Colon>> \o stringifyValue(members[i].value)
         \o stringifyMembers(members, i + 1)
stringifyValue(v) ==
    CASE v.type = "number" -> <<ToText(v.n)>>
      [] v.type = "string" -> <<quote(v.s)>>
      [] v.type = "null" -> <<NullToken>>
      [] v.type = "array" ->
            <<LeftBracket>> \o stringifyElements(v.a, 1) \o <<RightBracket>>
      [] v.type = "object" ->
            <<LeftBrace>> \o stringifyMembers(v.a, 1) \o <<RightBrace>>

\* JSON.parse: [value, next], next the position after the value read
RECURSIVE numberOf(_, _, _)
numberOf(token, i, acc) ==
    IF i > Len(token) THEN acc
    ELSE numberOf(token, i + 1, 10 * acc + DigitValue(token[i]))
unquote(token) == SubSeq(token, 2, Len(token) - 1)
RECURSIVE parseValue(_, _)
RECURSIVE parseElements(_, _, _)
parseElements(tokens, i, acc) ==
    LET r == parseValue(tokens, i)
    IN  IF tokens[r.next] = Comma
        THEN parseElements(tokens, r.next + 1, Append(acc, r.value))
        ELSE [value |-> JArray(Append(acc, r.value)), next |-> r.next + 1]
RECURSIVE parseMembers(_, _, _)
parseMembers(tokens, i, acc) ==
    LET r == parseValue(tokens, i + 2)
        member == Member(unquote(tokens[i]), r.value)
    IN  IF tokens[r.next] = Comma
        THEN parseMembers(tokens, r.next + 1, Append(acc, member))
        ELSE [value |-> JObject(Append(acc, member)), next |-> r.next + 1]
parseValue(tokens, i) ==
    IF tokens[i] = LeftBracket
    THEN IF tokens[i + 1] = RightBracket
         THEN [value |-> JArray(<<>>), next |-> i + 2]
         ELSE parseElements(tokens, i + 1, <<>>)
    ELSE IF tokens[i] = LeftBrace
    THEN IF tokens[i + 1] = RightBrace
         THEN [value |-> JObject(<<>>), next |-> i + 2]
         ELSE parseMembers(tokens, i + 1, <<>>)
    ELSE IF tokens[i] = NullToken THEN [value |-> JNull, next |-> i + 1]
    ELSE IF Head(tokens[i]) = 34
    THEN [value |-> JString(unquote(tokens[i])), next |-> i + 1]
    ELSE [value |-> JNumber(numberOf(tokens[i], 1, 0)), next |-> i + 1]
parse(text) == parseValue(text, 1).value

\* what is falsy for ||
falsy(v) ==
    \/ v.type = "null"
    \/ v.type = "number" /\ v.n = 0
    \/ v.type = "string" /\ v.s = <<>>
\* JSON.parse(localStorage.getItem('pokemonFavorites')) || []
loadFavorites(item) ==
    IF ~IsSome(item) THEN <<>>
    ELSE IF falsy(parse(TheValue(item))) THEN <<>>
    ELSE parse(TheValue(item)).a
\* localStorage.setItem('pokemonFavorites', JSON.stringify(favoritesPokemon))
saveFavorites(list) == Some(stringifyValue(JArray(list)))

KeyId == Str(<<"i", "d">>)
KeyName == Str(<<"n", "a", "m", "e">>)
KeyImage == Str(<<"i", "m", "a", "g", "e">>)
KeySprite == Str(<<"s", "p", "r", "i", "t", "e">>)
KeyTypes == Str(<<"t", "y", "p", "e", "s">>)
\* a sprite URL of the API response (null or a string) as a JSON value
SpriteValue(url) == IF IsSome(url) THEN JString(TheValue(url)) ELSE JNull
\* a || b || c over sprite URLs: the first that is a non-empty string, else the last
firstTruthy(a, b, c) ==
    IF IsSome(a) /\ TheValue(a) # <<>> THEN a
    ELSE IF IsSome(b) /\ TheValue(b) # <<>> THEN b
    ELSE c
\* favoriteData of main.js and of Model/favoritesPokemon.js
favoriteDataOf(im, pokemon) ==
    IF im = "main"
    THEN JObject(<<Member(KeyId, JNumber(pokemon.id)),
                   Member(KeyName, JString(pokemon.name)),
                   Member(KeyImage,
                       SpriteValue(firstTruthy(pokemon.artwork, pokemon.dream_world,
                                               pokemon.front_default)))>>)
    ELSE JObject(<<Member(KeyId, JNumber(pokemon.id)),
                   Member(KeyName, JString(pokemon.name)),
                   Member(KeySprite, SpriteValue(pokemon.front_default)),
                   Member(KeyTypes,
                       JArray([i \in 1..Len(pokemon.types) |-> JString(pokemon.types[i])]))>>)
\* favoritesPokemon.findIndex(fav => fav.id === id): 0 for -1
favoriteIndex(list, id) ==
    IF \E i \in 1..Len(list) : getMember(list[i], KeyId).n = id
    THEN CHOOSE i \in 1..Len(list) :
            /\ getMember(list[i], KeyId).n = id
            /\ \A j \in 1..(i - 1) : getMember(list[j], KeyId).n # id
    ELSE 0
\* faulty variant of the call: list.splice(index), which removes the rest of the list too
spliceToEnd(list, index) == SubSeq(list, 1, index - 1)

\* list.splice(index, 1)
splice(list, index) ==
    SubSeq(list, 1, index - 1) \o SubSeq(list, index + 1, Len(list))
\* favoritesPokemon.filter(fav => fav.id !== pokemonId)
withoutFavorite(list, pokemonId) ==
    LET Other(fav) == getMember(fav, KeyId).n # pokemonId IN SelectSeq(list, Other)

\* the Pokemon on display whose heart button is clicked
FavoritePokemon ==
    { [id |-> 7, name |-> Str(<<"m", "e", "w">>), artwork |-> None, dream_world |-> None,
       front_default |-> None, types |-> <<Str(<<"i", "c", "e">>)>>],
      [id |-> 25, name |-> Str(<<"u", "n", "o">>), artwork |-> None, dream_world |-> Some(Str(<<"d", ".", "s", "v", "g">>)),
       front_default |-> Some(Str(<<"f", ".", "p", "n", "g">>)), types |-> <<Str(<<"i", "c", "e">>), Str(<<"b", "u", "g">>)>>],
      [id |-> 150, name |-> Str(<<"a", "b", "r", "a">>), artwork |-> Some(Str(<<"a", ".", "p", "n", "g">>)), dream_world |-> None,
       front_default |-> Some(Str(<<"f", ".", "p", "n", "g">>)), types |-> <<Str(<<"b", "u", "g">>)>>],
      [id |-> 1010, name |-> Str(<<"h", "o", "-", "o", "h">>), artwork |-> Some(<<>>), dream_world |-> None,
       front_default |-> Some(Str(<<"h", ".", "p", "n", "g">>)), types |-> <<Str(<<"i", "c", "e">>)>>] }
FavoriteIds == {p.id : p \in FavoritePokemon}

toggleFavorite(pokemon) ==
    /\ favoritesPokemon' =
          IF favoriteIndex(favoritesPokemon, pokemon.id) # 0
          THEN splice(favoritesPokemon, favoriteIndex(favoritesPokemon, pokemon.id))
          ELSE Append(favoritesPokemon, favoriteDataOf(impl, pokemon))
    /\ localStorage' = saveFavorites(favoritesPokemon')
    /\ UNCHANGED <<battleVars, cacheVars, quizVars, comparisonVars,
                   firstCalculation, pageVars>>

(* removeFavorite(pokemonId): main.js always saves, the module saves only  *)
(* if the list got shorter.                                                 *)
removeFavorite(pokemonId) ==
    /\ favoritesPokemon' = withoutFavorite(favoritesPokemon, pokemonId)
    /\ localStorage' =
          IF impl = "main" \/ Len(favoritesPokemon') < Len(favoritesPokemon)
          THEN saveFavorites(favoritesPokemon')
          ELSE localStorage
    /\ UNCHANGED <<battleVars, cacheVars, quizVars, comparisonVars,
                   firstCalculation, pageVars>>

\* clearAllFavorites of Model/favoritesPokemon.js: removeItem
clearAllFavorites ==
    /\ impl = "gaming"
    /\ favoritesPokemon' = <<>>
    /\ localStorage' = None
    /\ UNCHANGED <<battleVars, cacheVars, quizVars, comparisonVars,
                   firstCalculation, pageVars>>

(* The page is loaded again: the scripts run from their top, and of all    *)
(* the state only the storage is left.                                      *)
reloadPage ==
    /\ favoritesPokemon' = loadFavorites(localStorage)
    /\ pokemonCache' = <<>>
    /\ requests' = initializeApp(impl, 1)
    /\ nextRequest' = 1 + Cardinality(requests')
    /\ received' = {}
    /\ pendingBattle' = {}
    /\ quizContainer' = "empty"
    /\ currentBattleSetup' = [attacker |-> None, defender |-> None]
    /\ attackerLevel' = None
    /\ attackerMovePower' = None
    /\ attackerMoveType' = None
    /\ battleResult' = None
    /\ currentQuizGame' = NoQuizGame
    /\ currentComparisonSlots' = [slot1 |-> None, slot2 |-> None]
    /\ pendingComparison' = {}
    /\ searches' = {}
    /\ loading' = "none"
    /\ output' = None
    /\ isShinyMode' = FALSE
    /\ shinyImages' = {}
    /\ evolutionWalks' = {}
    /\ evolutionDisplay' = None
    /\ movesCalls' = {}
    /\ movesetContainer' = None
    /\ activeButtons' = {}
    /\ visibleSections' = {}
    /\ quizCalls' = [c \in QuizCallIds |-> None]
    /\ UNCHANGED <<impl, localStorage, firstCalculation,
                   nextSearch, online,
                   questionScored>>

\* what an earlier visit may have left in the storage
StoredBefore(im) ==
    {None, saveFavorites(<<>>)}
        \cup {saveFavorites(<<favoriteDataOf(im, p)>>) : p \in FavoritePokemon}
InitFavorites ==
    /\ impl \in Impls
    /\ currentBattleSetup = [attacker |-> None, defender |-> None]
    /\ attackerLevel = None
    /\ attackerMovePower = None
    /\ attackerMoveType = None
    /\ battleResult = None
    /\ pendingBattle = {}
    /\ pokemonCache = <<>>
    /\ requests = initializeApp(impl, 1)
    /\ nextRequest = 1 + Cardinality(requests)
    /\ received = {}
    /\ localStorage \in StoredBefore(impl)
    /\ favoritesPokemon = loadFavorites(localStorage)
    /\ currentQuizGame = NoQuizGame
    /\ quizContainer = "empty"
    /\ currentComparisonSlots = [slot1 |-> None, slot2 |-> None]
    /\ pendingComparison = {}
    /\ firstCalculation = None
    /\ InitPage
NextFavorites ==
    \/ \E pokemon \in FavoritePokemon : toggleFavorite(pokemon)
    \/ \E pokemonId \in FavoriteIds : removeFavorite(pokemonId)
    \/ clearAllFavorites
    \/ reloadPage
    \/ preloadAnswered
SpecFavorites == InitFavorites /\ [][NextFavorites]_vars

-----------------------------------------------------------------------------
(* The quiz.  generateNewQuizQuestion draws the id of the Pokemon to guess  *)
(* and awaits its fetch; then it draws option ids and awaits their fetches  *)
(* one at a time until it has four different Pokemon, shuffles them and     *)
(* sets and shows the question.  Every fetch that is answered stores its    *)
(* Pokemon in the Map before the call goes on.  Several calls can be at     *)
(* their awaits at once, each with its own correctPokemon and options.      *)

\* correct answers the model follows before a reset
MaxCorrect == 3
\* generateNewQuizQuestion calls at their awaits at a time while the game is played
MaxGameCalls == 1
GameCallIds == {c \in QuizCallIds : c <= MaxGameCalls}
\* the ids Math.random() draws, of the 1..1010 it can
QuizIds == {1, 7, 25, 1010}
NumOptions == 2 + 2
\* what fetchPokemonData(id) leaves in the Map
QuizData(id) == [name |-> NameOfId(id), response |-> 0]
\* the Map once the Pokemon of a question are fetched
RECURSIVE cacheOptions(_, _, _)
cacheOptions(cache, options, i) ==
    IF i > Len(options) THEN cache
    ELSE cacheOptions(
            IF toString(options[i]) \in DOMAIN cache THEN cache
            ELSE cacheSet(cache, toString(options[i]), QuizData(options[i])),
            options, i + 1)

\* options.find(p => p.id === optionPokemon.id)
find(options, id) == \E i \in DOMAIN options : options[i] = id
\* [options[i], options[j]] = [options[j], options[i]]
swap(options, i, j) == [options EXCEPT ![i] = options[j], ![j] = options[i]]
\* the shuffle's loop for i = 4, 3, 2 with the draws j = draws[1], draws[2], draws[3]
shuffle(options, draws) ==
    swap(swap(swap(options, NumOptions, draws[1]), NumOptions - 1, draws[2]),
         NumOptions - 2, draws[3])
\* the draws of the shuffle followed, of the 24 it can make
ShuffleDraws == {<<4, 3, 2>>, <<1, 1, 1>>}
\* the ids drawn for the Pokemon to guess; the options are drawn from QuizIds
QuizCorrectIds == {25, 1010}
(* fetchPokemonData(id) / fetchPokemon(id.toString()) up to its await: the *)
(* Map is looked up now, and only a miss sends a request.  The call waits   *)
(* for the Pokemon of the id, as the first one (awaiting "correct") or as   *)
(* an option.                                                               *)
quizFetch(cache, awaiting, options, id) ==
    Some([awaiting |-> awaiting, options |-> options, id |-> id,
          hit |-> toString(id) \in DOMAIN cache])
\* the fetch gives the Pokemon: the entry found, or an ok response that parses
canFetch(call) == call.hit \/ online
\* the fetch fails: a request was sent and the network is away
canFail(call) == ~call.hit /\ ~online
\* the Map after the fetch gave the Pokemon: pokemonCache.set after a response
fetched(call) ==
    IF call.hit THEN pokemonCache
    ELSE cacheSet(pokemonCache, toString(call.id), QuizData(call.id))

\* the calls once call c has drawn randomId and awaits its fetch
called(calls, c, randomId) ==
    [calls EXCEPT ![c] = quizFetch(pokemonCache, "correct", <<>>, randomId)]
\* initializeQuiz, Skip, Next Question: generateNewQuizQuestion up to its first await
generateNewQuizQuestion(c, randomId) ==
    /\ quizCalls[c] = None
    /\ quizCalls' = called(quizCalls, c, randomId)
    /\ UNCHANGED <<battleVars, cacheVars, favoritesVars, quizVars, comparisonVars,
                   firstCalculation, searchVars, shinyVars, evolutionVars, movesVars,
                   sectionVars, online, questionScored>>

(* The fetch of randomId gave the Pokemon: const options = [correctPokemon], *)
(* and the loop draws optionId and awaits its fetch.                         *)
correctPokemonFetched(c, optionId) ==
    /\ IsSome(quizCalls[c]) /\ TheValue(quizCalls[c]).awaiting = "correct"
    /\ canFetch(TheValue(quizCalls[c]))
    /\ pokemonCache' = fetched(TheValue(quizCalls[c]))
    /\ quizCalls' = [quizCalls EXCEPT ![c] =
                        quizFetch(pokemonCache', "option", <<TheValue(quizCalls[c]).id>>,
                                  optionId)]
    /\ UNCHANGED <<battleVars, requests, nextRequest, received, favoritesVars, quizVars,
                   comparisonVars, firstCalculation, searchVars, shinyVars,
                   evolutionVars, movesVars, sectionVars, online, questionScored>>

(* The fetch of the first Pokemon failed.  fetchPokemonData of main.js      *)
(* gives null: the call starts generateNewQuizQuestion() again, which draws *)
(* randomId, and returns.  fetchPokemon of the module throws and the catch  *)
(* writes the error message.                                                *)
correctPokemonFailed(c, randomId) ==
    /\ IsSome(quizCalls[c]) /\ TheValue(quizCalls[c]).awaiting = "correct"
    /\ canFail(TheValue(quizCalls[c]))
    /\ IF impl = "main"
       THEN /\ quizCalls' = called(quizCalls, c, randomId)
            /\ UNCHANGED <<quizContainer, shinyImages>>
       ELSE /\ quizCalls' = [quizCalls EXCEPT ![c] = None]
            /\ quizContainer' = "error"
            /\ shinyImages' = shinyImages \ {"quiz"}
    /\ UNCHANGED <<battleVars, cacheVars, favoritesVars, currentQuizGame,
                   comparisonVars, firstCalculation, searchVars, isShinyMode,
                   evolutionVars, movesVars, sectionVars, online, questionScored>>

\* faulty variant: every fetched option is pushed
pushedAlways(options, optionId) == Append(options, optionId)
\* if (optionPokemon && !options.find(...)) options.push(optionPokemon)
pushed(options, optionId) ==
    IF find(options, optionId) THEN options ELSE Append(options, optionId)

(* The fetch of an option gave the Pokemon: it is pushed unless it is among *)
(* the options already.  With fewer than four options the loop draws         *)
(* optionId and awaits its fetch; with four it ends, the options are         *)
(* shuffled, the question is set and displayQuizQuestion shows it.           *)
optionPokemonFetched(c, optionId, draws) ==
    /\ IsSome(quizCalls[c]) /\ TheValue(quizCalls[c]).awaiting = "option"
    /\ canFetch(TheValue(quizCalls[c]))
    /\ pokemonCache' = fetched(TheValue(quizCalls[c]))
    /\ LET call == TheValue(quizCalls[c])
           options == pushed(call.options, call.id)
       IN  IF Len(options) < NumOptions
           THEN /\ quizCalls' = [quizCalls EXCEPT ![c] =
                                    quizFetch(pokemonCache', "option", options, optionId)]
                /\ UNCHANGED <<currentQuizGame, quizContainer, shinyImages, questionScored>>
           ELSE /\ quizCalls' = [quizCalls EXCEPT ![c] = None]
                /\ currentQuizGame' =
                      [currentQuizGame EXCEPT !.currentPokemon = Some(call.options[1]),
                                              !.options = shuffle(options, draws),
                                              !.revealed = FALSE]
                /\ quizContainer' = "question"
                /\ shinyImages' = shinyImages \ {"quiz"}
                /\ questionScored' = FALSE
    /\ UNCHANGED <<battleVars, requests, nextRequest, received, favoritesVars,
                   comparisonVars, firstCalculation, searchVars, isShinyMode,
                   evolutionVars, movesVars, sectionVars, online>>

(* The fetch of an option failed (null in main.js, caught inside the loop   *)
(* in the module): nothing is pushed and the loop draws optionId.            *)
optionPokemonFailed(c, optionId) ==
    /\ IsSome(quizCalls[c]) /\ TheValue(quizCalls[c]).awaiting = "option"
    /\ canFail(TheValue(quizCalls[c]))
    /\ quizCalls' = [quizCalls EXCEPT ![c] =
                        quizFetch(pokemonCache, "option", TheValue(quizCalls[c]).options,
                                  optionId)]
    /\ UNCHANGED <<battleVars, cacheVars, favoritesVars, quizVars, comparisonVars,
                   firstCalculation, searchVars, shinyVars, evolutionVars, movesVars,
                   sectionVars, online, questionScored>>

\* the network goes away or comes back
connectionChanged ==
    /\ online' = ~online
    /\ UNCHANGED <<battleVars, cacheVars, favoritesVars, quizVars, comparisonVars,
                   firstCalculation, searchVars, shinyVars, evolutionVars, movesVars,
                   sectionVars, quizCalls, questionScored>>

(* The fetch a call awaits returns, with the Pokemon or with a failure, and *)
(* the call goes on to its next await or to its end.                         *)
\* the Pokemon that call c awaits is the last of its options
lastOption(c) ==
    /\ IsSome(quizCalls[c])
    /\ Len(pushed(TheValue(quizCalls[c]).options, TheValue(quizCalls[c]).id)) = NumOptions
(* The fetch that call c awaits returns.  With the last option the loop    *)
(* ends and the shuffle draws; before it the loop draws the next id.        *)
quizFetchReturned(c) ==
    \/ \E optionId \in QuizIds : correctPokemonFetched(c, optionId)
    \/ \E randomId \in QuizCorrectIds : correctPokemonFailed(c, randomId)
    \/ lastOption(c) /\ \E draws \in ShuffleDraws :
          optionPokemonFetched(c, TheValue(quizCalls[c]).id, draws)
    \/ ~lastOption(c) /\ \E optionId \in QuizIds :
          optionPokemonFetched(c, optionId, <<4, 3, 2>>)
    \/ \E optionId \in QuizIds : optionPokemonFailed(c, optionId)
\* the option loop of a call draws an id that is not among its options
newOptionDrawn(c) ==
    /\ quizFetchReturned(c)
    /\ IsSome(quizCalls'[c]) /\ TheValue(quizCalls'[c]).awaiting = "option"
    /\ ~find(TheValue(quizCalls'[c]).options, TheValue(quizCalls'[c]).id)

\* the option clicked is the Pokemon to guess
isCorrect(game, optionIndex) == game.options[optionIndex] = TheValue(game.currentPokemon)

(* Faulty variant of selectQuizAnswer: the streak survives a wrong answer. *)
selectQuizAnswerKeepingStreak(optionIndex) ==
    /\ quizContainer = "question"
    /\ optionIndex \in 1..Len(currentQuizGame.options)
    /\ isCorrect(currentQuizGame, optionIndex) => currentQuizGame.score < 10 * MaxCorrect
    /\ currentQuizGame' =
          IF isCorrect(currentQuizGame, optionIndex)
          THEN [currentQuizGame EXCEPT !.score = @ + 10, !.streak = @ + 1,
                                       !.revealed = TRUE]
          ELSE [currentQuizGame EXCEPT !.revealed = TRUE]
    /\ UNCHANGED <<battleVars, cacheVars, favoritesVars, quizContainer,
                   comparisonVars, firstCalculation>>
    /\ questionScored' = (questionScored \/ isCorrect(currentQuizGame, optionIndex))
    /\ UNCHANGED <<searchVars, shinyVars, evolutionVars, movesVars, sectionVars, quizCallVars>>

(* selectQuizAnswer(optionIndex): a click on an option button.  The        *)
(* buttons get the class 'disabled' but stay in the page, so a question    *)
(* can be answered again.                                                   *)
selectQuizAnswer(optionIndex) ==
    /\ quizContainer = "question"
    /\ optionIndex \in 1..Len(currentQuizGame.options)
    /\ isCorrect(currentQuizGame, optionIndex) => currentQuizGame.score < 10 * MaxCorrect
    /\ currentQuizGame' =
          IF isCorrect(currentQuizGame, optionIndex)
          THEN [currentQuizGame EXCEPT !.score = @ + 10, !.streak = @ + 1,
                                       !.revealed = TRUE]
          ELSE [currentQuizGame EXCEPT !.streak = 0, !.revealed = TRUE]
    /\ UNCHANGED <<battleVars, cacheVars, favoritesVars, quizContainer,
                   comparisonVars, firstCalculation>>
    /\ questionScored' = (questionScored \/ isCorrect(currentQuizGame, optionIndex))
    /\ UNCHANGED <<searchVars, shinyVars, evolutionVars, movesVars, sectionVars, quizCallVars>>

\* the Reveal button
revealQuizAnswer ==
    /\ quizContainer = "question"
    /\ currentQuizGame' = [currentQuizGame EXCEPT !.revealed = TRUE]
    /\ UNCHANGED <<battleVars, cacheVars, favoritesVars, quizContainer,
                   comparisonVars, firstCalculation, pageVars>>

\* resetQuizGame: score and streak to 0, then generateNewQuizQuestion()
resetQuizGame(c, randomId) ==
    /\ quizCalls[c] = None
    /\ currentQuizGame' = [currentQuizGame EXCEPT !.score = 0, !.streak = 0]
    /\ quizCalls' = called(quizCalls, c, randomId)
    /\ UNCHANGED <<battleVars, cacheVars, favoritesVars, quizContainer, comparisonVars,
                   firstCalculation, searchVars, shinyVars, evolutionVars, movesVars,
                   sectionVars, online, questionScored>>

NextQuiz ==
    \/ \E c \in GameCallIds, randomId \in QuizCorrectIds : generateNewQuizQuestion(c, randomId)
    \/ \E c \in GameCallIds : quizFetchReturned(c)
    \/ connectionChanged
    \/ \E optionIndex \in 1..NumOptions : selectQuizAnswer(optionIndex)
    \/ revealQuizAnswer
    \/ \E c \in GameCallIds, randomId \in QuizCorrectIds : resetQuizGame(c, randomId)
SpecQuiz == InitCache /\ [][NextQuiz]_vars

-----------------------------------------------------------------------------
(* The comparison tool: two slots filled like the battle's.                 *)

\* addPokemonToSlot(slotId) -> addToComparison(name, slot) up to its await
addPokemonToSlot(slotId, name) ==
    /\ ~IsSome(currentComparisonSlots[slotId])
    /\ Cardinality(pendingComparison) < MaxPending
    /\ pendingComparison' = pendingComparison \cup {[name |-> name, slot |-> slotId]}
    /\ UNCHANGED <<battleVars, cacheVars, favoritesVars, quizVars,
                   currentComparisonSlots, firstCalculation, pageVars>>

\* addToComparison after the await, the Pokemon fetched and stored in the Map
addToComparisonLoaded(p) ==
    /\ p \in pendingComparison
    /\ pendingComparison' = pendingComparison \ {p}
    /\ currentComparisonSlots' = [currentComparisonSlots EXCEPT ![p.slot] = Some(Pokedex[p.name])]
    /\ pokemonCache' = cacheSet(pokemonCache, cleanNameOf(NameTyped[p.name]), Pokedex[p.name])
    /\ UNCHANGED <<battleVars, requests, nextRequest, received, favoritesVars, quizVars,
                   firstCalculation, pageVars>>

\* addToComparison after the await, the fetch having failed
addToComparisonFailed(p) ==
    /\ p \in pendingComparison
    /\ pendingComparison' = pendingComparison \ {p}
    /\ UNCHANGED <<battleVars, cacheVars, favoritesVars, quizVars,
                   currentComparisonSlots, firstCalculation, pageVars>>

removeFromComparison(slotId) ==
    /\ IsSome(currentComparisonSlots[slotId])
    /\ currentComparisonSlots' = [currentComparisonSlots EXCEPT ![slotId] = None]
    /\ UNCHANGED <<battleVars, cacheVars, favoritesVars, quizVars, pendingComparison,
                   firstCalculation, pageVars>>

\* clearComparison: both slots are emptied at once
clearComparison ==
    /\ currentComparisonSlots' = [slot1 |-> None, slot2 |-> None]
    /\ UNCHANGED <<battleVars, cacheVars, favoritesVars, quizVars, pendingComparison,
                   firstCalculation, pageVars>>

-----------------------------------------------------------------------------
(* The calculator among the other features.  SpecApp starts with both     *)
(* battle slots filled and their damage displayed, a quiz question on the  *)
(* screen and every Pokemon fetched for them in the Map, and runs the      *)
(* calculation between answers to the quiz, clicks on a heart button and   *)
(* loads into the comparison slots, which add to the Map.                   *)

AppSetup == [attacker |-> Some(Pokedex.manaphy), defender |-> Some(Pokedex.sandshrew)]
AppQuestion == <<1, 7, 25, 1010>>
AppMoveTypes == {"electric", DefaultMoveType}
AppFavorites == {p \in FavoritePokemon : p.id = 7}
AppCompared == {"glitch"}
AppSlots == {"slot1", "slot2"}
AppLevelTexts == {Str(<<"1">>), ToText(DefaultLevel)}
InitApp ==
    /\ impl \in Impls
    /\ currentBattleSetup = AppSetup
    /\ attackerLevel = Some(ToText(DefaultLevel))
    /\ attackerMovePower = Some(ToText(DefaultPower))
    /\ attackerMoveType = Some(DefaultMoveType)
    /\ pendingBattle = {}
    /\ pokemonCache =
          cacheOptions(
              cacheSet(cacheSet(<<>>, cleanNameOf(NameTyped.manaphy), Pokedex.manaphy),
                       cleanNameOf(NameTyped.sandshrew), Pokedex.sandshrew),
              AppQuestion, 1)
    /\ requests = initializeApp(impl, 1)
    /\ nextRequest = 1 + Cardinality(requests)
    /\ received = {}
    /\ favoritesPokemon = <<>>
    /\ localStorage = None
    /\ currentQuizGame = [NoQuizGame EXCEPT !.currentPokemon = Some(AppQuestion[2]),
                                            !.options = AppQuestion]
    /\ quizContainer = "question"
    /\ currentComparisonSlots = [slot1 |-> None, slot2 |-> None]
    /\ pendingComparison = {}
    /\ InitPage
    /\ battleResult = calculateBattleDamage(impl, currentBattleSetup, attackerLevel,
                          attackerMovePower, attackerMoveType, None)
    /\ firstCalculation =
          Some([inputs |-> battleInputs, result |-> TheValue(battleResult),
                repeated |-> FALSE])
NextApp ==
    \/ calculateDamage
    \/ \E type \in AppMoveTypes : changeMoveType(type)
    \/ \E text \in AppLevelTexts : changeLevel(text)
    \/ \E optionIndex \in 1..NumOptions : selectQuizAnswer(optionIndex)
    \/ \E pokemon \in AppFavorites : toggleFavorite(pokemon)
    \/ \E slotId \in AppSlots, name \in AppCompared : addPokemonToSlot(slotId, name)
    \/ \E p \in pendingComparison : addToComparisonLoaded(p)
    \/ \E p \in pendingComparison : addToComparisonFailed(p)
    \/ removeFromComparison("slot1")
    \/ clearComparison
SpecApp == InitApp /\ [][NextApp]_vars

-----------------------------------------------------------------------------
(* What the properties speak of.                                            *)
BothSet == IsSome(currentBattleSetup.attacker) /\ IsSome(currentBattleSetup.defender)
\* a result is displayed for the setup at hand
Shown == BothSet /\ IsSome(battleResult)
Result == TheValue(battleResult)
Attacker == TheValue(currentBattleSetup.attacker)
Defender == TheValue(currentBattleSetup.defender)
DefTypes == Defender.types
MoveTypeRead == moveTypeOf(attackerMoveType)
LevelRead == ParseField(attackerLevel, DefaultLevel)
PowerRead == ParseField(attackerMovePower, DefaultPower)
\* the integer a field parsed to
IntOf(x) ==
    IF MathFloor(x).kind = "int" THEN MathFloor(x).n
    ELSE IF x.neg THEN 0 - LimbBase * LimbBase ELSE LimbBase * LimbBase

\* the labels, in the words of the code
NoEffect == "It has no effect!"
NotVeryEffective == "It's not very effective..."
NormallyEffective == "It's normally effective."
SuperEffective == "It's super effective!"
\* classify of the specification
LabelOf(m) ==
    IF m = RatZero THEN NoEffect
    ELSE IF RatLess(m, RatOne) THEN NotVeryEffective
    ELSE IF m = RatOne THEN NormallyEffective
    ELSE SuperEffective
Multipliers == {RatZero, Rat(1, 4), RatHalf, RatOne, RatTwo, Rat(4, 1)}

\* the factor of one defending type by the full 18-type table
TableFactor(defType, moveType) ==
    IF defType \notin DOMAIN typeEffectiveness THEN RatOne
    ELSE IF moveType \in typeEffectiveness[defType].weakTo THEN RatTwo
    ELSE IF moveType \in typeEffectiveness[defType].resistantTo THEN RatHalf
    ELSE IF moveType \in typeEffectiveness[defType].immuneTo THEN RatZero
    ELSE RatOne
RECURSIVE TableProduct(_, _, _)
TableProduct(moveType, types, i) ==
    IF i > Len(types) THEN RatOne
    ELSE RatMul(TableFactor(types[i], moveType), TableProduct(moveType, types, i + 1))
SomeTypeImmune ==
    \E i \in 1..Len(DefTypes) :
        /\ DefTypes[i] \in DOMAIN typeEffectiveness
        /\ MoveTypeRead \in typeEffectiveness[DefTypes[i]].immuneTo

\* the inputs the specification calls valid
ValidInputs ==
    /\ LevelRead.kind = "num" /\ IntOf(LevelRead) \in 1..100
    /\ PowerRead.kind = "num" /\ IntOf(PowerRead) >= 1
    /\ Attacker.attack >= 0
    /\ Defender.defense >= 1
\* max="200" of the power field; the greatest base stat of the API
MaxPower == 200
MaxStat == 2 ^ 8 - 1
\* valid inputs within the ranges of the form and of the API
InputsInRange ==
    /\ ValidInputs
    /\ IntOf(PowerRead) <= MaxPower
    /\ Attacker.attack <= MaxStat
    /\ Defender.defense <= MaxStat
(* The exact value ((2*level/5 + 2) * power * attack / defense / 50 + 2)   *)
(* * multiplier as the fraction ExactNum / ExactDen.                        *)
ExactNum ==
    ((2 * IntOf(LevelRead) + 10) * IntOf(PowerRead) * Attacker.attack
        + 500 * Defender.defense) * Result.effectiveness[1]
ExactDen == 250 * Defender.defense * Result.effectiveness[2]
ExactFloor == ExactNum \div ExactDen

\* C1: if some defending type is immune to the move type, the multiplier shown is 0
C1_ImmunityGivesZero ==
    (Shown /\ SomeTypeImmune) => Result.effectiveness = RatZero

\* C2: with a defense stat <= 0 the calculation fails and no damage value is displayed
C2_ZeroDefenseRejected ==
    (BothSet /\ Defender.defense <= 0) => ~IsSome(battleResult)

(* C3, as claimed: for valid inputs the damage is the floor of the exact   *)
(* rational value of the formula times the multiplier.                      *)
C3_ExactRationalFloor ==
    (Shown /\ ValidInputs) => Result.damage = [kind |-> "int", n |-> ExactFloor, value |-> None]
(* C3, amended: for valid inputs within the ranges of the form and of the  *)
(* API (power up to 200, stats up to 255) the damage is an integer, the     *)
(* floor of the double evaluation of the formula with the one truncation    *)
(* after the multiplier: it is the exact floor when the exact value is no   *)
(* integer, the exact value or one less when it is; 74 and 18 in the        *)
(* scenario.                                                                *)
C3_DoubleFloor ==
    (Shown /\ InputsInRange) =>
        /\ Result.damage.kind = "int"
        /\ Result.damage.n \in {ExactFloor - 1, ExactFloor}
        /\ ExactNum % ExactDen # 0 => Result.damage.n = ExactFloor
        /\ ( /\ IntOf(LevelRead) = 50 /\ IntOf(PowerRead) = 80
             /\ Attacker.attack = 100 /\ Defender.defense = 100 ) =>
                /\ Result.effectiveness = RatTwo => Result.damage.n = 74
                /\ Result.effectiveness = RatHalf => Result.damage.n = 18
\* a quarter multiplier on a value the doubles put just under 20: 4 is shown, not 5
C3_Witness ==
    /\ Shown /\ InputsInRange
    /\ IntOf(LevelRead) = 2 /\ IntOf(PowerRead) = 90
    /\ Attacker.attack = 125 /\ Defender.defense = 35
    /\ Result.effectiveness = Rat(1, 4)
    /\ ExactFloor = 5
    /\ Result.damage = [kind |-> "int", n |-> 4, value |-> None]

(* C4: the multiplier is the product over the defender's types of the      *)
(* factors of the full 18-type table.                                       *)
C4_ProductOfTableFactors ==
    Shown => Result.effectiveness = TableProduct(MoveTypeRead, DefTypes, 1)

(* C5: the multiplier is one of 0, 1/4, 1/2, 1, 2, 4 for a defender of two *)
(* types and one of 0, 1/2, 1, 2 for a defender of one type.                *)
C5_MultiplierValues ==
    Shown =>
        /\ Len(DefTypes) = 2 => Result.effectiveness \in Multipliers
        /\ Len(DefTypes) = 1 => Result.effectiveness \in {RatZero, RatHalf, RatOne, RatTwo}
C5_Witness ==
    Shown /\ Len(DefTypes) = 2 /\ Result.effectiveness = Rat(1, 4)

(* C6: in each implementation the label is classify of the multiplier: 0   *)
(* no effect, below 1 not very effective, 1 normally effective, above 1     *)
(* super effective.                                                         *)
C6_LabelByMultiplier ==
    Shown =>
        /\ Result.text = LabelOf(Result.effectiveness)
        /\ \A m \in Multipliers : effectivenessTextOf(impl, m) = LabelOf(m)

(* C7: an electric move against a ground-only defender shows multiplier 0, *)
(* damage 0 and the no-effect label, whatever the stats, power and level.   *)
C7_ElectricAgainstGround ==
    (Shown /\ MoveTypeRead = "electric" /\ DefTypes = <<"ground">>) =>
        /\ Result.effectiveness = RatZero
        /\ Result.damage = [kind |-> "int", n |-> 0, value |-> None]
        /\ Result.text = NoEffect

(* C8: with a power below 1 or a level outside 1..100 the calculation      *)
(* fails and no damage value is displayed.                                  *)
C8_InvalidMoveRejected ==
    ( /\ BothSet
      /\ \/ LevelRead.kind # "num" \/ IntOf(LevelRead) \notin 1..100
         \/ PowerRead.kind # "num" \/ IntOf(PowerRead) < 1 )
    => ~IsSome(battleResult)

(* C9: the multiplier shown for the defender's types [d1, d2] is the one   *)
(* computed for [d2, d1].                                                   *)
C9_OrderOfTypes ==
    (Shown /\ Len(DefTypes) = 2) =>
        Result.effectiveness =
            typeEffectivenessOf(impl, MoveTypeRead, <<DefTypes[2], DefTypes[1]>>)
\* fire is weak to ground and flying immune to it: 0 in either order
C9_Witness ==
    /\ Shown /\ impl = "main"
    /\ DefTypes = <<"fire", "flying">> /\ MoveTypeRead = "ground"
    /\ Result.effectiveness = RatZero

\* the types with an entry in the table an implementation uses
KnownTypes(im) == IF im = "main" THEN DOMAIN typeEffectiveness ELSE DOMAIN typeChart
\* the move types that some entry of that table lists
ListedMoveTypes(im) ==
    IF im = "main"
    THEN UNION {typeEffectiveness[t].weakTo \cup typeEffectiveness[t].resistantTo
                    \cup typeEffectiveness[t].immuneTo : t \in DOMAIN typeEffectiveness}
    ELSE UNION {typeChart[t].weak \cup typeChart[t].resist : t \in DOMAIN typeChart}
WithEntry(im, types) ==
    LET Known(t) == t \in KnownTypes(im) IN SelectSeq(types, Known)

\* the forEach of the calculation on the setup and fields at hand throws
CalculationThrows ==
    BothSet /\ effectivenessOf(impl, currentBattleSetup, attackerMoveType) = TypeError
(* C10: a defending type without a table entry and a move type that no     *)
(* entry lists contribute the factor 1 and raise no error: the calculation  *)
(* on any setup goes through, and the result it shows has a damage number   *)
(* and the multiplier of the listed types alone.                            *)
C10_UnknownTypesNeutral ==
    /\ ~CalculationThrows
    /\ Shown =>
          /\ Result.damage.kind = "int"
          /\ Result.effectiveness =
                typeEffectivenessOf(impl, MoveTypeRead, WithEntry(impl, DefTypes))
          /\ MoveTypeRead \notin ListedMoveTypes(impl) => Result.effectiveness = RatOne
          /\ \A t \in UnknownTypes : typeEffectivenessOf(impl, t, DefTypes) = RatOne
          /\ (\A i \in 1..Len(DefTypes) : DefTypes[i] \notin KnownTypes(impl))
                => Result.effectiveness = RatOne

\* the ok responses that a step brings to fetchPokemon / fetchPokemonData
ReceivedByFetch == received' \ received

(* C17: per clean name at most one request ends in a successful response,  *)
(* calls for the same name that overlap in time included: no ok response    *)
(* comes to fetchPokemon for a name the Map already has from an earlier     *)
(* one.                                                                     *)
C17_FirstForItsName ==
    \A r \in ReceivedByFetch : r.name \notin DOMAIN pokemonCache
C17_OneRequestPerName == [][C17_FirstForItsName]_vars

(* C18: over the steps of fetches (calls that miss the Map, and answers)   *)
(* a clean name becomes a cache key exactly when a fetch for it receives    *)
(* an ok response that parsed, a failing fetch leaves the cache as it is,   *)
(* and no fetch removes or replaces an existing entry.                      *)
C18_FetchStep == requests' # requests
C18_KeysOfOkResponses ==
    DOMAIN pokemonCache' = DOMAIN pokemonCache \cup {r.name : r \in ReceivedByFetch}
C18_EntryKept ==
    \A k \in DOMAIN pokemonCache :
        k \in DOMAIN pokemonCache' /\ pokemonCache'[k] = pokemonCache[k]
C18_CacheOnlyGrows ==
    [][C18_FetchStep => (C18_KeysOfOkResponses /\ C18_EntryKept)]_vars

(* C19: after every toggleFavorite, removeFavorite and clearAllFavorites   *)
(* the item 'pokemonFavorites' of the storage decodes to the favorites     *)
(* list in memory (no item decoding to the empty list), so loading the     *)
(* page again restores that list.                                           *)
C19_FavoritesPersistent ==
    loadFavorites(localStorage) = favoritesPokemon
\* two favorites, the first with a null image, stored and in memory
C19_Witness ==
    /\ Len(favoritesPokemon) = 2
    /\ getMember(favoritesPokemon[1], KeyId).n = 7
    /\ IsSome(localStorage)
    /\ Len(loadFavorites(localStorage)) = 2

(* C20: selectQuizAnswer on the correct option adds 10 to the score and 1  *)
(* to the streak, on another option it sets the streak to 0 and leaves the *)
(* score, resetQuizGame sets both to 0; so the score is always a multiple  *)
(* of 10 and at least 10 times the streak.                                  *)
C20_ScoreAndStreak ==
    /\ currentQuizGame.score % 10 = 0
    /\ currentQuizGame.score >= 10 * currentQuizGame.streak
    /\ currentQuizGame.streak >= 0
C20_AnswerStep ==
    \A optionIndex \in 1..NumOptions :
        selectQuizAnswer(optionIndex) =>
            IF isCorrect(currentQuizGame, optionIndex)
            THEN /\ currentQuizGame'.score = currentQuizGame.score + 10
                 /\ currentQuizGame'.streak = currentQuizGame.streak + 1
            ELSE /\ currentQuizGame'.score = currentQuizGame.score
                 /\ currentQuizGame'.streak = 0
C20_ResetStep ==
    \A c \in GameCallIds, randomId \in QuizCorrectIds :
        resetQuizGame(c, randomId) => currentQuizGame'.score = 0 /\ currentQuizGame'.streak = 0
C20_QuizScoring ==
    [](C20_ScoreAndStreak) /\ [][C20_AnswerStep /\ C20_ResetStep]_vars
\* two right answers and then a wrong one: the score stays, the streak is gone
C20_Witness ==
    /\ currentQuizGame.score = 20
    /\ currentQuizGame.streak = 0
    /\ currentQuizGame.revealed

\* the calculation kept for comparison
First == TheValue(firstCalculation)

(* C11: a calculation on the inputs (attacker, defender, level, power,     *)
(* move type) of an earlier one shows the damage, multiplier and label     *)
(* that one showed, whatever the quiz, the favorites, the comparison and   *)
(* the cache did in between.                                                *)
C11_SameInputsSameResult ==
    (Shown /\ IsSome(firstCalculation) /\ First.inputs = battleInputs)
        => Result = First.result
\* recalculated after a right answer, a favorite and a load into the comparison
C11_Witness ==
    /\ Shown /\ IsSome(firstCalculation)
    /\ First.repeated /\ First.inputs = battleInputs
    /\ currentQuizGame.streak >= 1
    /\ favoritesPokemon # <<>>
    /\ IsSome(currentComparisonSlots.slot1)

\* what a calculation has no business with
ApplicationState ==
    <<currentBattleSetup, attackerLevel, attackerMovePower, attackerMoveType,
      pendingBattle, cacheVars, favoritesVars, quizVars, quizCalls, comparisonVars>>
(* C14: a damage calculation changes nothing but the result area: the     *)
(* battle setup, the cache, the comparison slots, the quiz and the         *)
(* favorites stay as they are, and calculating again shows the same        *)
(* result.                                                                  *)
C14_CalculationStep ==
    calculateDamage =>
        /\ UNCHANGED ApplicationState
        /\ Shown => battleResult' = battleResult
C14_NoSideEffects == [][C14_CalculationStep]_vars
\* a calculation repeated with the Map grown, a load in flight and a score made
C14_Witness ==
    /\ Shown /\ IsSome(firstCalculation) /\ First.repeated
    /\ pendingComparison # {}
    /\ cleanNameOf(NameTyped.glitch) \in DOMAIN pokemonCache
    /\ currentQuizGame.score >= 10

-----------------------------------------------------------------------------
(* C12, C13: what the calculator displays.                                  *)
EffectivenessTexts ==
    {effectivenessTextOf(im, m) : im \in Impls, m \in Multipliers}

(* C12: there is no partial outcome: whatever is displayed is a complete   *)
(* result, with a finite integer damage, a multiplier among 0, 0.25, 0.5,   *)
(* 1, 2, 4 and a label; otherwise nothing is displayed.                     *)
C12_CompleteOrNothing ==
    Shown => /\ Result.damage.kind = "int"
             /\ Result.effectiveness \in Multipliers
             /\ Result.text \in EffectivenessTexts

(* C13: every damage value displayed is a non-negative integer (the result *)
(* is clamped to a minimum of 0).                                           *)
C13_DamageNonNegative ==
    (Shown /\ Result.damage.kind = "int") => Result.damage.n >= 0

-----------------------------------------------------------------------------
(* C15, C16: the shape of the type table.                                   *)
Disjoint(a, b, c) == a \cap b = {} /\ a \cap c = {} /\ b \cap c = {}
\* the defender on display has one type, and the table has an entry for it
SingleTyped ==
    /\ Shown /\ IsSome(attackerMoveType)
    /\ Len(DefTypes) = 1
    /\ DefTypes[1] \in KnownTypes(impl)

(* C15: for every defending type of the table the sets weakTo, resistantTo *)
(* and immuneTo are pairwise disjoint, so that a move type has at most one  *)
(* modifier applied per defending type: against a defender of one type the  *)
(* multiplier shown is 2 exactly for the moves of weakTo, 0.5 exactly for   *)
(* those of resistantTo and 0 exactly for those of immuneTo.                *)
C15_SetsDisjoint ==
    /\ \A t \in DOMAIN typeEffectiveness :
          Disjoint(typeEffectiveness[t].weakTo, typeEffectiveness[t].resistantTo,
                   typeEffectiveness[t].immuneTo)
    /\ (SingleTyped /\ impl = "main") =>
          LET chart == typeEffectiveness[DefTypes[1]]
          IN  /\ Result.effectiveness = RatTwo <=> MoveTypeRead \in chart.weakTo
              /\ Result.effectiveness = RatHalf <=> MoveTypeRead \in chart.resistantTo
              /\ Result.effectiveness = RatZero <=> MoveTypeRead \in chart.immuneTo
\* a ghost defender, which has moves in each of its three sets, hit by an immunity
C15_Witness ==
    /\ SingleTyped /\ impl = "main"
    /\ DefTypes = <<"ghost">> /\ MoveTypeRead = "normal"
    /\ typeEffectiveness.ghost.weakTo # {} /\ typeEffectiveness.ghost.resistantTo # {}
    /\ Result.effectiveness = RatZero

\* the move types the battle form offers (gamingDisplay.js): the 18 element types
MoveTypeOptions ==
    {"normal", "fire", "water", "electric", "grass", "ice", "fighting", "poison",
     "ground", "flying", "psychic", "bug", "rock", "ghost", "dragon", "dark",
     "steel", "fairy"}

(* C16: the table the damage calculation uses has an entry for each of the *)
(* 18 element types and for nothing else, and every type named in a set of  *)
(* an entry is one of the 18.                                               *)
C16_TableCoversAllTypes ==
    Shown => /\ KnownTypes(impl) = MoveTypeOptions
             /\ Cardinality(KnownTypes(impl)) = 18
             /\ ListedMoveTypes(impl) \subseteq MoveTypeOptions

-----------------------------------------------------------------------------
(* C29: a battle result is displayed only while both slots are filled,     *)
(* whatever the interleaving of loads, removals and calculations; removing  *)
(* either role leaves the result area empty and the other slot as it was.   *)
C29_ResultNeedsBoth == IsSome(battleResult) => BothSet
C29_RemoveStep ==
    \A role \in Roles :
        removeFromBattle(role) =>
            /\ battleResult' = None
            /\ currentBattleSetup'[role] = None
            /\ \A other \in Roles \ {role} :
                  currentBattleSetup'[other] = currentBattleSetup[other]
C29_ResultOnlyWithBoth == [](C29_ResultNeedsBoth) /\ [][C29_RemoveStep]_vars
\* both slots were loaded, and the attacker was removed while a load was pending
C29_Witness ==
    /\ Cardinality(DOMAIN pokemonCache) >= 2
    /\ ~IsSome(currentBattleSetup.attacker) /\ IsSome(currentBattleSetup.defender)
    /\ battleResult = None
    /\ pendingBattle # {}

-----------------------------------------------------------------------------
(* C25: the favorites list never holds two entries of one id; a toggle     *)
(* flips the membership of the given id and of no other, and leaves the     *)
(* other entries and their order as they were (so that a second toggle of   *)
(* the same Pokemon restores the set of ids).                               *)
\* isFavorite(pokemonId): favoritesPokemon.some(fav => fav.id === pokemonId)
idsOf(list) == [i \in 1..Len(list) |-> getMember(list[i], KeyId).n]
isFavorite(list, id) == \E i \in 1..Len(list) : idsOf(list)[i] = id
C25_NoDuplicateIds ==
    \A i, j \in 1..Len(favoritesPokemon) :
        idsOf(favoritesPokemon)[i] = idsOf(favoritesPokemon)[j] => i = j
C25_ToggleStep ==
    \A pokemon \in FavoritePokemon :
        toggleFavorite(pokemon) =>
            /\ isFavorite(favoritesPokemon', pokemon.id)
                    = ~isFavorite(favoritesPokemon, pokemon.id)
            /\ withoutFavorite(favoritesPokemon', pokemon.id)
                    = withoutFavorite(favoritesPokemon, pokemon.id)
C25_FavoritesUniqueIds == [](C25_NoDuplicateIds) /\ [][C25_ToggleStep]_vars
\* three favorites in an order that only toggles produce
C25_Witness ==
    /\ idsOf(favoritesPokemon) = <<1010, 7, 150>>
    /\ localStorage = saveFavorites(favoritesPokemon)

-----------------------------------------------------------------------------
(* C27: a question is scored at most once: once the question on display    *)
(* has added to the score, nothing clicked on it raises the score or the    *)
(* streak again before the next question is shown.                          *)
C27_NoSecondScore ==
    questionScored =>
        /\ currentQuizGame'.score <= currentQuizGame.score
        /\ currentQuizGame'.streak <= currentQuizGame.streak
C27_ScoredOnce == [][C27_NoSecondScore]_vars

-----------------------------------------------------------------------------
(* The search.  main.js: fetchPokemon(name) shows #loading, displays a     *)
(* cached Pokemon at once, else awaits fetch(), displays the Pokemon or the *)
(* error, and hides #loading in its finally.  The modules: searchPokemon    *)
(* of pokemonController.js shows #loading, awaits fetchPokemon of           *)
(* Model/pokeapi.js and does the same in try/catch/finally.                 *)

\* searches followed
MaxSearches == 3
\* the names and ids searched: typed, clicked in the suggestions, or drawn
SearchNames == {Mew, (Str(<<"M", "E", "W">>) \o <<9>>), Abra, toString(7)}
\* the parsed response for a clean name, as far as the search goes
SearchData(cleanName) == [name |-> ApiName(cleanName), response |-> 0]

\* displayPokemon(pokemon): #output gets the card of pokemon.name, with new img elements
displayPokemon(search, pokemon) ==
    /\ output' = Some([kind |-> "pokemon", search |-> search, name |-> pokemon.name])
    /\ shinyImages' = shinyImages \ {"card"}
\* showError(message): #output gets the error message
showError(search, cleanName) ==
    /\ output' = Some([kind |-> "error", search |-> search, name |-> cleanName])
    /\ shinyImages' = shinyImages \ {"card"}

(* A search up to its await.  In main.js a cached name is displayed and    *)
(* #loading hidden again without an await; in the modules the caller awaits *)
(* fetchPokemon also when it returns the cached entry.                      *)
searchPokemon(name) ==
    /\ nextSearch <= MaxSearches
    /\ nextSearch' = nextSearch + 1
    /\ IF impl = "main" /\ cleanNameOf(name) \in DOMAIN pokemonCache
       THEN /\ displayPokemon(nextSearch, pokemonCache[cleanNameOf(name)])
            /\ loading' = "none"
            /\ UNCHANGED searches
       ELSE /\ loading' = "block"
            /\ searches' = searches \cup
                   {[search |-> nextSearch, name |-> cleanNameOf(name),
                     hit |-> cleanNameOf(name) \in DOMAIN pokemonCache]}
            /\ UNCHANGED <<output, shinyImages>>
    /\ UNCHANGED <<battleVars, cacheVars, favoritesVars, quizVars, comparisonVars,
                   firstCalculation, isShinyMode, evolutionVars, movesVars, sectionVars,
                   quizCallVars, questionScored>>

(* Faulty variant of searchSucceeded: #loading is left as it is (no        *)
(* finally).                                                                *)
searchSucceededKeepingLoading(s) ==
    /\ s \in searches
    /\ s.hit \/ online
    /\ searches' = searches \ {s}
    /\ pokemonCache' = IF s.hit THEN pokemonCache
                       ELSE cacheSet(pokemonCache, s.name, SearchData(s.name))
    /\ displayPokemon(s.search, SearchData(s.name))
    /\ UNCHANGED loading
    /\ UNCHANGED <<battleVars, requests, nextRequest, received, favoritesVars, quizVars,
                   comparisonVars, firstCalculation, nextSearch, isShinyMode,
                   evolutionVars, movesVars, sectionVars, quizCallVars, questionScored>>

(* The search after its await, with the entry found in the Map (the        *)
(* Pokemon of the key) or an ok response: the response is stored in the     *)
(* Map, the card of the Pokemon displayed, #loading hidden.                 *)
searchSucceeded(s) ==
    /\ s \in searches
    /\ s.hit \/ online
    /\ searches' = searches \ {s}
    /\ pokemonCache' = IF s.hit THEN pokemonCache
                       ELSE cacheSet(pokemonCache, s.name, SearchData(s.name))
    /\ displayPokemon(s.search, SearchData(s.name))
    /\ loading' = "none"
    /\ UNCHANGED <<battleVars, requests, nextRequest, received, favoritesVars, quizVars,
                   comparisonVars, firstCalculation, nextSearch, isShinyMode,
                   evolutionVars, movesVars, sectionVars, quizCallVars, questionScored>>

(* The search after its await, the fetch having failed (404, another       *)
(* status, or the network): the error is displayed, #loading hidden.        *)
searchFailed(s) ==
    /\ s \in searches
    /\ ~s.hit
    /\ searches' = searches \ {s}
    /\ showError(s.search, s.name)
    /\ loading' = "none"
    /\ UNCHANGED <<battleVars, cacheVars, favoritesVars, quizVars, comparisonVars,
                   firstCalculation, nextSearch, isShinyMode, evolutionVars, movesVars,
                   sectionVars, quizCallVars, questionScored>>

searchCompleted(s) == searchSucceeded(s) \/ searchFailed(s)

\* what #pokemon-search holds when the button is clicked: nothing, blanks, a name
SearchInputs == {<<>>, <<32, 9>>, Str(<<" ", "a", "b", "r", "a">>)}
(* The click on #search-btn: what trim() leaves of the input is searched.  *)
(* When it leaves nothing there is no search: pokemonController.js puts its *)
(* message in #output (here the error of search 0, without a name), main.js *)
(* raises an alert and leaves the page as it is.                            *)
searchBtnClicked(value) ==
    IF trim(value) # <<>> THEN searchPokemon(trim(value))
    ELSE /\ IF impl = "gaming" THEN showError(0, <<>>)
            ELSE UNCHANGED <<output, shinyImages>>
         /\ UNCHANGED <<battleVars, cacheVars, favoritesVars, quizVars, comparisonVars,
                        firstCalculation, searches, nextSearch, loading, isShinyMode,
                        evolutionVars, movesVars, sectionVars, quizCallVars, questionScored>>
NextSearch ==
    \/ \E name \in SearchNames : searchPokemon(name)
    \/ \E value \in SearchInputs : searchBtnClicked(value)
    \/ \E s \in searches : searchSucceeded(s)
    \/ \E s \in searches : searchFailed(s)
    \/ preloadAnswered
SpecSearch == InitCache /\ [][NextSearch]_vars
\* every fetch is answered or fails: no search awaits for ever
SpecSearchFair ==
    SpecSearch /\ \A n \in 1..MaxSearches :
                     WF_vars(\E s \in searches : s.search = n /\ searchCompleted(s))

InFlight(n) == \E s \in searches : s.search = n

(* C23: every search ends, whether its fetch succeeds or fails, and its    *)
(* completion hides the loading indicator and leaves its own Pokemon or     *)
(* its own error message in the output, never nothing.                      *)
C23_CompletionStep ==
    /\ \A s \in searches :
          searchCompleted(s) =>
              /\ loading' = "none"
              /\ IsSome(output')
              /\ TheValue(output').search = s.search
              /\ TheValue(output').kind \in {"pokemon", "error"}
              /\ TheValue(output').kind = "pokemon"
                    => TheValue(output').name = ApiName(s.name)
              /\ TheValue(output').kind = "error"
                    => TheValue(output').name = s.name
    /\ \A name \in SearchNames :
          (searchPokemon(name) /\ searches' = searches) =>
              /\ loading' = "none"
              /\ output' = Some([kind |-> "pokemon", search |-> nextSearch,
                                 name |-> ApiName(cleanNameOf(name))])
C23_SearchEnds ==
    /\ [][C23_CompletionStep]_vars
    /\ \A n \in 1..MaxSearches : InFlight(n) ~> ~InFlight(n)
\* a search has failed, the one after it succeeded, and nothing is in flight
C23_Witness ==
    /\ searches = {} /\ nextSearch > 2
    /\ loading = "none"
    /\ IsSome(output) /\ TheValue(output).kind = "error" /\ TheValue(output).search > 0
    /\ pokemonCache # <<>>

(* C24: once overlapping searches have all completed, the output is the   *)
(* outcome of the search requested last, and the loading indicator is not   *)
(* hidden while a search is in flight.  The message for an empty input      *)
(* (search 0) is the outcome of no search.                                  *)
C24_LastSearchWins ==
    /\ (searches = {} /\ IsSome(output) /\ TheValue(output).search > 0)
          => TheValue(output).search = nextSearch - 1
    /\ searches # {} => loading = "block"

-----------------------------------------------------------------------------
(* The evolution viewer.  showEvolutionChain(name) fetches the Pokemon,    *)
(* its species and the species' evolution chain, and displayEvolutionChain  *)
(* walks the chain from its root: it fetches the Pokemon of the current     *)
(* stage, pushes it when the fetch succeeded, and goes on to                *)
(* currentStage.evolves_to[0] until there is none.                          *)

\* showEvolutionChain calls followed at a time
MaxWalks == 1
\* a chain link of the API: the species' name and the links it evolves to
Link(species, evolves_to) == [species |-> species, evolves_to |-> evolves_to]
Kadabra == Str(<<"k", "a", "d">>)
Alakazam == Str(<<"a", "l", "a">>)
Eevee == Str(<<"e", "e", "v">>)
Vaporeon == Str(<<"v", "a", "p">>)
Jolteon == Str(<<"j", "o", "l">>)
Wurmple == Str(<<"w", "u", "r">>)
Silcoon == Str(<<"s", "i", "l">>)
Beautifly == Str(<<"b", "e", "a">>)
Cascoon == Str(<<"c", "a", "s">>)
Dustox == Str(<<"d", "u", "s">>)
(* Chains as the API returns them: no evolution, a line of three, a stage  *)
(* with several evolutions, and two branches that evolve further.           *)
EvolutionChains ==
    { Link(Mew, <<>>),
      Link(Abra, <<Link(Kadabra, <<Link(Alakazam, <<>>)>>)>>),
      Link(Eevee, <<Link(Vaporeon, <<>>), Link(Jolteon, <<>>)>>),
      Link(Wurmple, <<Link(Silcoon, <<Link(Beautifly, <<>>)>>),
                      Link(Cascoon, <<Link(Dustox, <<>>)>>)>>) }
\* every species of a chain, at most three links deep as the API's chains are
SpeciesOf(chain) ==
    {chain.species}
        \cup {chain.evolves_to[i].species : i \in DOMAIN chain.evolves_to}
        \cup UNION {{chain.evolves_to[i].evolves_to[j].species :
                        j \in DOMAIN chain.evolves_to[i].evolves_to} :
                    i \in DOMAIN chain.evolves_to}
\* the chain the API gives for a Pokemon
ChainOf(name) == CHOOSE chain \in EvolutionChains : name \in SpeciesOf(chain)
\* the names the viewer is opened for: the card on display, or any name
EvolutionNames == {Mew, Kadabra, Eevee, Jolteon, Wurmple}

\* currentStage.evolves_to[0] || null
nextStage(currentStage) ==
    IF currentStage.evolves_to # <<>> THEN Some(currentStage.evolves_to[1]) ELSE None
\* what a stage's fetch can bring
StageOutcomes == {"pokemon", "failed", "other"}
(* showEvolutionChain(pokemonName) up to its first await, the one of       *)
(* fetchPokemonData / fetchPokemon, which looks the name up in the Map now  *)
(* and sends a request only on a miss.                                      *)
startWalk(pokemonName) ==
    [phase |-> "pokemon", name |-> pokemonName,
     hit |-> cleanNameOf(pokemonName) \in DOMAIN pokemonCache,
     chain |-> None, currentStage |-> None, evolutionStages |-> <<>>,
     skipped |-> {}, broken |-> FALSE]
showEvolutionChain(name) ==
    /\ Cardinality(evolutionWalks) < MaxWalks
    /\ evolutionWalks' = evolutionWalks \cup {startWalk(name)}
    /\ UNCHANGED <<battleVars, cacheVars, favoritesVars, quizVars, comparisonVars,
                   firstCalculation, searchVars, shinyVars, evolutionDisplay,
                   movesVars, sectionVars, quizCallVars, questionScored>>

(* The fetch of the Pokemon gave it, from the Map or by an ok response,    *)
(* which is stored in the Map; the call goes on to fetch                    *)
(* pokemon.species.url.                                                     *)
evolutionPokemonFetched(w) ==
    /\ w \in evolutionWalks /\ w.phase = "pokemon"
    /\ w.hit \/ online
    /\ pokemonCache' =
          IF w.hit THEN pokemonCache
          ELSE cacheSet(pokemonCache, cleanNameOf(w.name), SearchData(cleanNameOf(w.name)))
    /\ evolutionWalks' = (evolutionWalks \ {w}) \cup
          {[w EXCEPT !.phase = "species", !.hit = FALSE]}
    /\ UNCHANGED <<battleVars, requests, nextRequest, received, favoritesVars, quizVars,
                   comparisonVars, firstCalculation, searchVars, shinyVars,
                   evolutionDisplay, movesVars, sectionVars, quizCallVars,
                   questionScored>>

(* The fetch of the Pokemon failed: fetchPokemonData of main.js gives null *)
(* and showEvolutionChain returns; fetchPokemon of the module throws and    *)
(* the catch writes the error text.                                         *)
evolutionPokemonFailed(w) ==
    /\ w \in evolutionWalks /\ w.phase = "pokemon"
    /\ ~w.hit
    /\ evolutionWalks' = evolutionWalks \ {w}
    /\ IF impl = "main" THEN UNCHANGED <<evolutionDisplay, shinyImages>>
       ELSE /\ evolutionDisplay' = Some([kind |-> "error"])
            /\ shinyImages' = shinyImages \ {"evolution"}
    /\ UNCHANGED <<battleVars, cacheVars, favoritesVars, quizVars, comparisonVars,
                   firstCalculation, searchVars, isShinyMode, movesVars, sectionVars,
                   quizCallVars, questionScored>>

\* the species is fetched and parsed: the call fetches speciesData.evolution_chain.url
evolutionSpeciesFetched(w) ==
    /\ w \in evolutionWalks /\ w.phase = "species"
    /\ online
    /\ evolutionWalks' = (evolutionWalks \ {w}) \cup {[w EXCEPT !.phase = "chain"]}
    /\ UNCHANGED <<battleVars, cacheVars, favoritesVars, quizVars, comparisonVars,
                   firstCalculation, searchVars, shinyVars, evolutionDisplay,
                   movesVars, sectionVars, quizCallVars, questionScored>>

(* main.js fetches a stage with fetchPokemonData, through the Map; the     *)
(* module (gamingDisplay.js) calls fetch() of /pokemon/<species name>.      *)
stageHit(cache, stage) ==
    IsSome(stage) /\ impl = "main" /\ cleanNameOf(TheValue(stage).species) \in DOMAIN cache
\* what the chain's fetch can bring, when its body parses
ChainOutcomes == {"chain", "other"}
(* The chain's answer is parsed.  "chain": displayEvolutionChain starts at *)
(* the root of the chain and awaits the fetch of its first stage.  "other": *)
(* the answer was not ok (response.ok is not looked at) and its body has no *)
(* chain; displayEvolutionChain(undefined) writes no stage.                 *)
evolutionChainLoaded(w, outcome) ==
    /\ w \in evolutionWalks /\ w.phase = "chain"
    /\ online
    /\ IF outcome = "chain"
       THEN /\ LET chain == ChainOf(ApiName(cleanNameOf(w.name)))
               IN  evolutionWalks' = (evolutionWalks \ {w}) \cup
                      {[w EXCEPT !.phase = "stage", !.chain = Some(chain),
                                 !.currentStage = Some(chain),
                                 !.hit = stageHit(pokemonCache, Some(chain))]}
            /\ UNCHANGED <<evolutionDisplay, shinyImages>>
       ELSE /\ evolutionWalks' = evolutionWalks \ {w}
            /\ evolutionDisplay' = Some([kind |-> "empty"])
            /\ shinyImages' = shinyImages \ {"evolution"}
    /\ UNCHANGED <<battleVars, cacheVars, favoritesVars, quizVars, comparisonVars,
                   firstCalculation, searchVars, isShinyMode, movesVars, sectionVars,
                   quizCallVars, questionScored>>

(* The fetch of the species or of the chain failed, or its body did not    *)
(* parse: the catch writes the error text.  What the fetch of the Pokemon   *)
(* stored in the Map stays there.                                           *)
evolutionChainFailed(w) ==
    /\ w \in evolutionWalks /\ w.phase \in {"species", "chain"}
    /\ evolutionWalks' = evolutionWalks \ {w}
    /\ evolutionDisplay' = Some([kind |-> "error"])
    /\ shinyImages' = shinyImages \ {"evolution"}
    /\ UNCHANGED <<battleVars, cacheVars, favoritesVars, quizVars, comparisonVars,
                   firstCalculation, searchVars, isShinyMode, movesVars, sectionVars,
                   quizCallVars, questionScored>>

(* One turn of the while loop, from the await of the stage's fetch on.     *)
(* "pokemon": the Pokemon came, from the Map or by an ok response (which    *)
(* main.js stores in the Map), and is pushed.  "failed": fetchPokemonData   *)
(* gave null for a request that failed, or the module's fetch() or json()   *)
(* threw; the stage is skipped.  "other": the answer was not ok and its     *)
(* body parsed; the module, which does not look at response.ok, pushes the  *)
(* body, and the rendering at the end throws on it, which its caller's      *)
(* catch turns into the error text.  Then the walk moves to the first       *)
(* evolution, and after the last stage the stages are written to            *)
(* #evolution-display.                                                      *)
evolutionStageFetched(w, outcome) ==
    /\ w \in evolutionWalks /\ w.phase = "stage"
    /\ outcome = "pokemon" => w.hit \/ online
    /\ outcome = "failed" => ~w.hit
    /\ outcome = "other" => impl = "gaming"
    /\ LET stage == TheValue(w.currentStage)
           key == cleanNameOf(stage.species)
           cache == IF outcome = "pokemon" /\ impl = "main" /\ ~w.hit
                    THEN cacheSet(pokemonCache, key, SearchData(key))
                    ELSE pokemonCache
           after == [w EXCEPT
                       !.evolutionStages =
                           IF outcome = "pokemon" THEN Append(@, stage.species) ELSE @,
                       !.skipped = IF outcome = "failed" THEN @ \cup {stage.species} ELSE @,
                       !.broken = (@ \/ outcome = "other"),
                       !.currentStage = nextStage(stage),
                       !.hit = stageHit(cache, nextStage(stage))]
       IN  /\ pokemonCache' = cache
           /\ IF IsSome(after.currentStage)
              THEN /\ evolutionWalks' = (evolutionWalks \ {w}) \cup {after}
                   /\ UNCHANGED <<evolutionDisplay, shinyImages>>
              ELSE /\ evolutionWalks' = evolutionWalks \ {w}
                   /\ evolutionDisplay' =
                         IF after.broken THEN Some([kind |-> "error"])
                         ELSE Some([kind |-> "stages", chain |-> TheValue(w.chain),
                                    evolutionStages |-> after.evolutionStages,
                                    skipped |-> after.skipped])
                   /\ shinyImages' = shinyImages \ {"evolution"}
    /\ UNCHANGED <<battleVars, requests, nextRequest, received, favoritesVars, quizVars,
                   comparisonVars, firstCalculation, searchVars, isShinyMode,
                   movesVars, sectionVars, quizCallVars, questionScored>>

NextEvolution ==
    \/ \E name \in EvolutionNames : showEvolutionChain(name)
    \/ \E w \in evolutionWalks : evolutionPokemonFetched(w)
    \/ \E w \in evolutionWalks : evolutionPokemonFailed(w)
    \/ \E w \in evolutionWalks : evolutionSpeciesFetched(w)
    \/ \E w \in evolutionWalks, outcome \in ChainOutcomes : evolutionChainLoaded(w, outcome)
    \/ \E w \in evolutionWalks : evolutionChainFailed(w)
    \/ \E w \in evolutionWalks, outcome \in StageOutcomes : evolutionStageFetched(w, outcome)
    \/ nextSearch = 1 /\ searchPokemon(Abra)
    \/ \E s \in searches : searchCompleted(s)
SpecEvolution == InitCache /\ [][NextEvolution]_vars

\* the species on display
StagesShown ==
    IF IsSome(evolutionDisplay) /\ TheValue(evolutionDisplay).kind = "stages"
    THEN {TheValue(evolutionDisplay).evolutionStages[i] :
             i \in DOMAIN TheValue(evolutionDisplay).evolutionStages}
    ELSE {}
(* C21: the viewer shows complete evolution lines: every species of the    *)
(* chain on display, in whatever branch, is a displayed stage (unless its   *)
(* own fetch failed).                                                       *)
C21_CompleteLines ==
    (IsSome(evolutionDisplay) /\ TheValue(evolutionDisplay).kind = "stages") =>
        SpeciesOf(TheValue(evolutionDisplay).chain)
            \subseteq (StagesShown \cup TheValue(evolutionDisplay).skipped)

-----------------------------------------------------------------------------
(* Shiny mode.  toggleShinyMode flips isShinyMode and updateShinyImages     *)
(* gives the images on the page at that moment (.pokemon-image, .sprite,    *)
(* .evolution-image, .quiz-image) the inline filter, or takes it away.      *)
(* A renderer replaces its container's markup with new images that carry    *)
(* no inline style.                                                         *)

\* the groups of images on the page that updateShinyImages selects
DisplayedImages ==
    (IF IsSome(output) /\ TheValue(output).kind = "pokemon" THEN {"card"} ELSE {})
        \cup (IF quizContainer = "question" THEN {"quiz"} ELSE {})
        \cup (IF StagesShown # {} THEN {"evolution"} ELSE {})
updateShinyImages(mode) == IF mode THEN DisplayedImages ELSE {}
toggleShinyMode ==
    /\ isShinyMode' = ~isShinyMode
    /\ shinyImages' = updateShinyImages(~isShinyMode)
    /\ UNCHANGED <<battleVars, cacheVars, favoritesVars, quizVars, comparisonVars,
                   firstCalculation, searchVars, evolutionVars, movesVars, sectionVars,
                   quizCallVars, questionScored>>

\* the ids the quiz draws here, in this order, the shuffle leaving them in place
ShinyQuestion == <<1, 7, 25, 1010>>
\* the fetch that call c awaits is answered; the call draws the next id of ShinyQuestion
shinyQuestionFetched(c) ==
    /\ IsSome(quizCalls[c])
    /\ LET drawn == Len(TheValue(quizCalls[c]).options) + 1
           optionId == ShinyQuestion[IF drawn < NumOptions THEN drawn + 1 ELSE 1]
       IN  IF TheValue(quizCalls[c]).awaiting = "correct"
           THEN correctPokemonFetched(c, optionId)
           ELSE optionPokemonFetched(c, optionId, <<4, 3, 2>>)
NextShiny ==
    \/ toggleShinyMode
    \/ nextSearch <= 2 /\ searchPokemon(Mew)
    \/ \E s \in searches : searchCompleted(s)
    \/ showEvolutionChain(Mew)
    \/ \E w \in evolutionWalks : evolutionPokemonFetched(w)
    \/ \E w \in evolutionWalks : evolutionSpeciesFetched(w)
    \/ \E w \in evolutionWalks : evolutionChainLoaded(w, "chain")
    \/ \E w \in evolutionWalks : evolutionStageFetched(w, "pokemon")
    \/ \E c \in GameCallIds : generateNewQuizQuestion(c, ShinyQuestion[1])
    \/ \E c \in GameCallIds : shinyQuestionFetched(c)
    \/ preloadAnswered
SpecShiny == InitCache /\ [][NextShiny]_vars

(* C22: shiny mode is persistent across the features: while it is on every *)
(* displayed image carries the shiny effect, also the images a search, the  *)
(* quiz or the evolution viewer renders later; while it is off none does.   *)
C22_ShinyEverywhere ==
    /\ isShinyMode => DisplayedImages \subseteq shinyImages
    /\ ~isShinyMode => shinyImages = {}

-----------------------------------------------------------------------------
(* The gaming sections.  A click on a gaming button runs toggleGamingFeature *)
(* with the button's feature; showBattleCalculator and startQuizGame are     *)
(* exported for the page's onclick attributes.                               *)

Sections == {"comparison", "battle", "evolution", "quiz", "moves"}
Features == Sections \cup {"shiny"}
(* getCurrentDisplayedPokemon: the text of .pokemon-name on the card, which *)
(* displayPokemon wrote as capitalizeFirst(pokemon.name), in lower case.    *)
getCurrentDisplayedPokemon ==
    IF IsSome(output) /\ TheValue(output).kind = "pokemon"
    THEN Some(toLowerCase(capitalizeFirst(TheValue(output).name))) ELSE None

(* The moves.  showPokemonMoves(pokemonName) fetches the Pokemon through   *)
(* the Map, then the first 20 of its moves at once, each fetch with its own *)
(* catch, and writes the moves that came to #moveset-container.             *)

\* showPokemonMoves calls followed at a time
MaxMoves == 1
\* showPokemonMoves up to its first await: the Map is looked up now
startMoves(pokemonName) ==
    [phase |-> "pokemon", name |-> pokemonName,
     hit |-> cleanNameOf(pokemonName) \in DOMAIN pokemonCache]
\* the Pokemon came, from the Map or by an ok response, which is stored in the Map
movesPokemonFetched(m) ==
    /\ m \in movesCalls /\ m.phase = "pokemon"
    /\ m.hit \/ online
    /\ pokemonCache' =
          IF m.hit THEN pokemonCache
          ELSE cacheSet(pokemonCache, cleanNameOf(m.name), SearchData(cleanNameOf(m.name)))
    /\ movesCalls' = (movesCalls \ {m}) \cup {[m EXCEPT !.phase = "moves", !.hit = FALSE]}
    /\ UNCHANGED <<battleVars, requests, nextRequest, received, favoritesVars, quizVars,
                   comparisonVars, firstCalculation, searchVars, shinyVars,
                   evolutionVars, movesetContainer, sectionVars, quizCallVars,
                   questionScored>>
(* The fetch of the Pokemon failed: main.js returns on the null, the       *)
(* module's catch writes the error text.                                    *)
movesPokemonFailed(m) ==
    /\ m \in movesCalls /\ m.phase = "pokemon"
    /\ ~m.hit
    /\ movesCalls' = movesCalls \ {m}
    /\ movesetContainer' = IF impl = "main" THEN movesetContainer
                           ELSE Some([kind |-> "error", name |-> <<>>])
    /\ UNCHANGED <<battleVars, cacheVars, favoritesVars, quizVars, comparisonVars,
                   firstCalculation, searchVars, shinyVars, evolutionVars,
                   sectionVars, quizCallVars, questionScored>>
(* Promise.all is settled, a move whose fetch failed left out:              *)
(* displayPokemonMoves / displayMoveset writes the moves of pokemon.name.   *)
movesFetched(m) ==
    /\ m \in movesCalls /\ m.phase = "moves"
    /\ movesCalls' = movesCalls \ {m}
    /\ movesetContainer' =
          Some([kind |-> "moves", name |-> ApiName(cleanNameOf(m.name))])
    /\ UNCHANGED <<battleVars, cacheVars, favoritesVars, quizVars, comparisonVars,
                   firstCalculation, searchVars, shinyVars, evolutionVars,
                   sectionVars, quizCallVars, questionScored>>

(* What opening a feature starts: initializeBattle renders the battle,      *)
(* initializeQuiz asks for a question (randomId is what it draws),           *)
(* initializeEvolution opens the chain and initializeMoves the moves of the  *)
(* Pokemon on the card; the comparison only renders.                         *)
initializeFeature(feature, randomId) ==
    /\ IF feature = "battle"
       THEN updateBattleDisplay(currentBattleSetup, battleResult) /\ noteCalculation
       ELSE UNCHANGED <<currentBattleSetup, attackerLevel, attackerMovePower,
                        attackerMoveType, battleResult, firstCalculation>>
    /\ IF feature = "quiz"
       THEN \E c \in GameCallIds :
               quizCalls[c] = None /\ quizCalls' = called(quizCalls, c, randomId)
       ELSE UNCHANGED quizCalls
    /\ IF feature = "evolution" /\ IsSome(getCurrentDisplayedPokemon)
       THEN /\ Cardinality(evolutionWalks) < MaxWalks
            /\ evolutionWalks' = evolutionWalks \cup
                  {startWalk(TheValue(getCurrentDisplayedPokemon))}
       ELSE UNCHANGED evolutionWalks
    /\ IF feature = "moves" /\ IsSome(getCurrentDisplayedPokemon)
       THEN /\ Cardinality(movesCalls) < MaxMoves
            /\ movesCalls' = movesCalls \cup
                  {startMoves(TheValue(getCurrentDisplayedPokemon))}
       ELSE UNCHANGED movesCalls
    /\ UNCHANGED <<impl, pendingBattle, cacheVars, favoritesVars, currentQuizGame,
                   quizContainer, comparisonVars, searchVars, shinyVars,
                   evolutionDisplay, movesetContainer, online, questionScored>>

toggleGamingFeature(feature, randomId) ==
    IF feature = "shiny" THEN toggleShinyMode
    ELSE IF feature \in activeButtons
         THEN /\ activeButtons' = {}
              /\ visibleSections' = {}
              /\ UNCHANGED <<battleVars, cacheVars, favoritesVars, quizVars,
                             comparisonVars, firstCalculation, searchVars, shinyVars,
                             evolutionVars, movesVars, quizCallVars, questionScored>>
         ELSE /\ activeButtons' = {feature}
              /\ visibleSections' = {feature}
              /\ initializeFeature(feature, randomId)

\* showBattleCalculator: the battle section is shown, then initializeBattle()
showBattleCalculator ==
    /\ impl = "gaming"
    /\ visibleSections' = visibleSections \cup {"battle"}
    /\ updateBattleDisplay(currentBattleSetup, battleResult)
    /\ noteCalculation
    /\ UNCHANGED <<impl, pendingBattle, cacheVars, favoritesVars, quizVars,
                   comparisonVars, searchVars, shinyVars, evolutionVars, movesVars,
                   activeButtons, quizCallVars, questionScored>>

\* startQuizGame: the quiz section is shown, then resetQuizGame()
startQuizGame(randomId) ==
    /\ impl = "gaming"
    /\ visibleSections' = visibleSections \cup {"quiz"}
    /\ currentQuizGame' = [currentQuizGame EXCEPT !.score = 0, !.streak = 0]
    /\ \E c \in GameCallIds :
          quizCalls[c] = None /\ quizCalls' = called(quizCalls, c, randomId)
    /\ UNCHANGED <<battleVars, cacheVars, favoritesVars, quizContainer,
                   comparisonVars, firstCalculation, searchVars, shinyVars,
                   evolutionVars, movesVars, activeButtons, online, questionScored>>

(* The clicks on the gaming buttons alone, with the card of a Pokemon      *)
(* searched by its id: the Map has it under the id, the card has its name.  *)
NextButtons ==
    \/ \E feature \in Features : toggleGamingFeature(feature, ShinyQuestion[1])
    \/ nextSearch = 1 /\ searchPokemon(toString(7))
    \/ \E s \in searches : searchCompleted(s)
    \/ \E w \in evolutionWalks : evolutionPokemonFetched(w)
    \/ \E w \in evolutionWalks : evolutionSpeciesFetched(w)
    \/ \E w \in evolutionWalks : evolutionChainLoaded(w, "chain")
    \/ \E w \in evolutionWalks : evolutionStageFetched(w, "pokemon")
    \/ \E m \in movesCalls : movesPokemonFetched(m)
    \/ \E m \in movesCalls : movesPokemonFailed(m)
    \/ \E m \in movesCalls : movesFetched(m)
    \/ \E c \in GameCallIds : shinyQuestionFetched(c)
SpecButtons == InitCache /\ [][NextButtons]_vars
\* every exported action
NextSections ==
    \/ NextButtons
    \/ showBattleCalculator
    \/ startQuizGame(ShinyQuestion[1])
SpecSections == InitCache /\ [][NextSections]_vars

SectionsConsistent ==
    /\ Cardinality(visibleSections) <= 1
    /\ Cardinality(activeButtons) <= 1
    /\ visibleSections = activeButtons
SectionsStep ==
    /\ \A feature \in Sections :
          (toggleGamingFeature(feature, ShinyQuestion[1]) /\ feature \in activeButtons)
              => feature \notin visibleSections'
    /\ toggleGamingFeature("shiny", ShinyQuestion[1]) => UNCHANGED sectionVars
(* C28: at most one gaming section is visible and at most one gaming button *)
(* is active, a section is visible exactly when its button is active,       *)
(* clicking the active feature's button hides it and toggling shiny mode    *)
(* changes neither, for every sequence of the exported actions.             *)
C28_OneSection == [](SectionsConsistent) /\ [][SectionsStep]_vars

-----------------------------------------------------------------------------
\* the id each call draws first here; a call that starts again draws any
FirstDraws == <<25, 1010>>
NextQuizCalls ==
    \/ \E c \in QuizCallIds : generateNewQuizQuestion(c, FirstDraws[c])
    \/ \E c \in QuizCallIds : quizFetchReturned(c)
    \/ connectionChanged
SpecQuizCalls == InitCache /\ [][NextQuizCalls]_vars
(* Every request returns, and the random draws of a call's option loop do  *)
(* not avoid the Pokemon still missing for ever.                             *)
SpecQuizCallsFair ==
    /\ SpecQuizCalls
    /\ \A c \in QuizCallIds : WF_vars(quizFetchReturned(c)) /\ SF_vars(newOptionDrawn(c))

(* C26: whenever a quiz question is set, the options are exactly 4 Pokemon  *)
(* with pairwise distinct ids and the Pokemon to guess is one of them, also  *)
(* when several generateNewQuizQuestion calls overlap.                       *)
C26_FourDistinctOptions ==
    IsSome(currentQuizGame.currentPokemon) =>
        /\ Len(currentQuizGame.options) = NumOptions
        /\ \A i, j \in 1..NumOptions :
              i # j => currentQuizGame.options[i] # currentQuizGame.options[j]
        /\ find(currentQuizGame.options, TheValue(currentQuizGame.currentPokemon))
(* A question was set while another call, in its option loop with other   *)
(* options, awaits a request it sent for a Pokemon the Map has by now.      *)
C26_Witness ==
    /\ IsSome(currentQuizGame.currentPokemon)
    /\ \E c \in QuizCallIds :
          /\ IsSome(quizCalls[c])
          /\ Len(TheValue(quizCalls[c]).options) >= 2
          /\ TheValue(quizCalls[c]).options[1] # TheValue(currentQuizGame.currentPokemon)
          /\ ~TheValue(quizCalls[c]).hit
          /\ toString(TheValue(quizCalls[c]).id) \in DOMAIN pokemonCache

(* C30: every generateNewQuizQuestion call eventually finishes when every   *)
(* request returns: a call that reached its option loop ends, also when the  *)
(* option fetches fail.                                                      *)
C30_CallEnds ==
    \A c \in QuizCallIds :
        (IsSome(quizCalls[c]) /\ TheValue(quizCalls[c]).awaiting = "option")
            ~> (quizCalls[c] = None)

=============================================================================
